---- MODULE Spec2Model ----
(***************************************************************************)
(* Incident lifecycle and auto-remediation orchestration of                *)
(* genai_rca_assistant/main.py: alert ingestion with run-id deduplication  *)
(* (azure_monitor, process_databricks_failure), the remediation cycle      *)
(* (trigger_auto_remediation, monitor_remediation_run and its handlers)    *)
(* and the Jira status webhook (webhook_jira, perform_close_from_jira).    *)
(*                                                                         *)
(* The store is the tickets table, the remediation_attempts table and the  *)
(* audit_trail table.  Every step between two points where the code can be *)
(* interleaved with another handler or task is one action.                 *)
(***************************************************************************)
EXTENDS Integers, Sequences, FiniteSets, TLC

(***************************************************************************)
(* Bounds of the model.                                                    *)
(***************************************************************************)
\* alerts submitted to /azure-monitor and /databricks-monitor
MaxAlerts == 2
\* alerts whose analysis finding starts a remediation cycle
MaxCycles == 2
\* status-change deliveries to /webhook/jira
MaxWebhooks == 2
\* advances of the wall clock
MaxTicks == 1
\* polls per attempt the status endpoint answers without a terminal status,
\* where the monitor's own limit is not the subject
MaxPending == 1
\* seconds the wall clock advances by at a time
ClockStep == 1000
\* direct invocations of trigger_auto_remediation by a caller outside the cycle
MaxCalls == 1
\* the largest attempt number a direct invocation passes
MaxAttemptNumber == 4

(***************************************************************************)
(* Values.                                                                 *)
(***************************************************************************)
\* SQL NULL / Python None
NULL == "<null>"
\* SQL NULL in an INTEGER column, and "no ticket" in a response
NULLINT == -1
\* a key a backend left out of its finding
Absent == "<absent>"

\* run identifiers an alert can carry: none, the empty string, the sentinel, a real one
RunIds == {NULL, "", "N/A", "R1"}

ReqIds == 1..MaxAlerts

\* run identifiers that name a run: not absent, not empty, not the sentinel
NonEmptyRunIds == RunIds \ {NULL, "", "N/A"}

\* identifiers of directly invoked remediation steps, and of all cycles
CallIds == (MaxAlerts + 1)..(MaxAlerts + MaxCalls)
TaskIds == ReqIds \cup CallIds

\* classifications and attempt numbers a direct invocation passes
CallErrorTypes ==
    {"GatewayTimeout", "DatabricksClusterStartFailure", "UnknownError", "SchemaMismatch"}
AttemptNumbers == 1..MaxAttemptNumber

\* delay sequences the backoff computation is run on: the leading delays of
\* the policies' [30, 60, 120]
BackoffSequences == {<<30>>, <<30, 60>>, <<30, 60, 120>>}

(***************************************************************************)
(* Remediation policy table.                                               *)
(***************************************************************************)
\* faulty variant: a table whose backoff sequences stop short of the retries
PoliciesShortBackoff ==
    [e \in {"GatewayTimeout", "HttpConnectionFailed", "ThrottlingError",
            "DatabricksClusterStartFailure", "ClusterMemoryExhausted",
            "DatabricksLibraryInstallationError", "LibraryInstallationFailed",
            "DatabricksJobExecutionError", "UserErrorSourceBlobNotExists"} |->
       [action |-> "retry_pipeline", max_retries |-> 3,
        backoff_seconds |-> <<30>>, playbook_url |-> "PLAYBOOK_RETRY_PIPELINE"]]

REMEDIABLE_ERRORS ==
    [e \in {"GatewayTimeout", "HttpConnectionFailed", "ThrottlingError",
            "DatabricksClusterStartFailure", "ClusterMemoryExhausted",
            "DatabricksLibraryInstallationError", "LibraryInstallationFailed",
            "DatabricksJobExecutionError", "UserErrorSourceBlobNotExists"} |->
       CASE e \in {"GatewayTimeout", "HttpConnectionFailed"} ->
              [action |-> "retry_pipeline", max_retries |-> 3,
               backoff_seconds |-> <<30, 60, 120>>, playbook_url |-> "PLAYBOOK_RETRY_PIPELINE"]
         [] e = "ThrottlingError" ->
              [action |-> "retry_pipeline", max_retries |-> 5,
               backoff_seconds |-> <<30, 60, 120, 300, 600>>, playbook_url |-> "PLAYBOOK_RETRY_PIPELINE"]
         [] e \in {"DatabricksClusterStartFailure", "ClusterMemoryExhausted"} ->
              [action |-> "restart_cluster", max_retries |-> 2,
               backoff_seconds |-> <<60, 180>>, playbook_url |-> "PLAYBOOK_RESTART_CLUSTER"]
         [] e \in {"DatabricksLibraryInstallationError", "LibraryInstallationFailed"} ->
              [action |-> "reinstall_libraries", max_retries |-> 2,
               backoff_seconds |-> <<60, 180>>, playbook_url |-> "PLAYBOOK_REINSTALL_LIBRARIES"]
         [] e = "DatabricksJobExecutionError" ->
              [action |-> "retry_job", max_retries |-> 3,
               backoff_seconds |-> <<30, 60, 120>>, playbook_url |-> "PLAYBOOK_RETRY_JOB"]
         [] OTHER ->
              [action |-> "check_upstream", max_retries |-> 2,
               backoff_seconds |-> <<300, 600>>, playbook_url |-> "PLAYBOOK_RERUN_UPSTREAM"]]

\* the environment variables the policy table reads its playbook URLs from
PlaybookEnvs == {REMEDIABLE_ERRORS[e].playbook_url : e \in DOMAIN REMEDIABLE_ERRORS}

\* monitor_remediation_run's local limits
max_poll_duration == 3600
poll_interval == 30

\* the retries trigger_auto_remediation asks of _http_post_with_retries
HttpRetries == 3

(***************************************************************************)
(* Analysis provider chain.                                                *)
(***************************************************************************)
\* the cased characters of the strings handled here (ASCII)
UpperLetters ==
    <<"A", "B", "C", "D", "E", "F", "G", "H", "I", "J", "K", "L", "M",
      "N", "O", "P", "Q", "R", "S", "T", "U", "V", "W", "X", "Y", "Z">>
LowerLetters ==
    <<"a", "b", "c", "d", "e", "f", "g", "h", "i", "j", "k", "l", "m",
      "n", "o", "p", "q", "r", "s", "t", "u", "v", "w", "x", "y", "z">>

\* the position of character c in letters, 0 when it is not one of them
LetterIndex(letters, c) ==
    IF \E i \in DOMAIN letters : letters[i] = c
    THEN CHOOSE i \in DOMAIN letters : letters[i] = c
    ELSE 0

IsCased(c) == LetterIndex(UpperLetters, c) # 0 \/ LetterIndex(LowerLetters, c) # 0

LowerChar(c) ==
    LET i == LetterIndex(UpperLetters, c) IN IF i # 0 THEN LowerLetters[i] ELSE c

UpperChar(c) ==
    LET i == LetterIndex(LowerLetters, c) IN IF i # 0 THEN UpperLetters[i] ELSE c

\* str.lower(): every cased character in lower case
RECURSIVE lower(_)
lower(s) ==
    IF Len(s) = 0 THEN ""
    ELSE LowerChar(SubSeq(s, 1, 1)) \o lower(SubSeq(s, 2, Len(s)))

\* str.title() from a position on: a cased character is put in upper case
\* when the character before it is not cased, in lower case when it is
RECURSIVE TitleFrom(_, _)
TitleFrom(s, after_cased) ==
    IF Len(s) = 0 THEN ""
    ELSE LET c == SubSeq(s, 1, 1)
         IN  (IF after_cased THEN LowerChar(c) ELSE UpperChar(c))
                \o TitleFrom(SubSeq(s, 2, Len(s)), IsCased(c))

\* str.title()
title(s) == TitleFrom(s, FALSE)

derive_priority(sev) ==
    LET s == lower(IF sev \in {NULL, Absent} THEN "" ELSE sev)
    IN  CASE s = "critical" -> "P1"
          [] s = "high" -> "P2"
          [] s = "medium" -> "P3"
          [] s = "low" -> "P4"
          [] OTHER -> "P3"

sla_for_priority(p) ==
    CASE p = "P1" -> 900
      [] p = "P2" -> 1800
      [] p = "P3" -> 7200
      [] p = "P4" -> 86400
      [] OTHER -> 1800

fallback_rca ==
    [error_type |-> "UnknownError", severity |-> "Medium", priority |-> "P3",
     confidence |-> "Low", auto_heal_possible |-> FALSE]

\* dict.get(key, default): the default only when the key is missing
Get(v, default) == IF v = Absent THEN default ELSE v

\* ai.setdefault("priority", derive_priority(ai.get("severity")))
SetDefaultPriority(ai) ==
    IF ai.priority = Absent
    THEN [ai EXCEPT !.priority = derive_priority(Get(ai.severity, NULL))]
    ELSE ai

\* the findings a backend can return
BackendFindings ==
    { [error_type |-> "GatewayTimeout", severity |-> "Critical", priority |-> Absent,
       confidence |-> "High", auto_heal_possible |-> TRUE],
      [error_type |-> "DatabricksClusterStartFailure", severity |-> "High", priority |-> "P1",
       confidence |-> "Medium", auto_heal_possible |-> TRUE] }

\* what a backend call returns: <<>> for "no result" (None), <<f>> for a finding f
BackendResults == {<<>>} \cup {<<f>> : f \in BackendFindings}

\* the provider modes: the three the code names, and one it does not
Providers == {"gemini", "ollama", "auto", "openai"}

Consulted(backend, result) == [backend |-> backend, result |-> result]

\* the backends generate_rca_and_recs calls, in order, each with what it returned
BackendsConsulted(provider, ollama, gemini) ==
    CASE provider = "ollama" -> <<Consulted("ollama", ollama)>>
      [] provider = "gemini" -> <<Consulted("gemini", gemini)>>
      [] provider = "auto" ->
           IF ollama # <<>> THEN <<Consulted("ollama", ollama)>>
           ELSE <<Consulted("ollama", ollama), Consulted("gemini", gemini)>>
      [] OTHER -> <<Consulted("gemini", gemini)>>

\* faulty variant: a finding is made up when the backends return none
rca_never_falls_back(provider, ollama, gemini) ==
    IF provider # "gemini" /\ ollama # <<>> THEN SetDefaultPriority(ollama[1])
    ELSE IF provider # "ollama" /\ gemini # <<>> THEN SetDefaultPriority(gemini[1])
    ELSE [fallback_rca EXCEPT !.error_type = "GatewayTimeout", !.auto_heal_possible = TRUE]

\* faulty variant: in auto mode the second backend's finding is preferred
rca_gemini_first(provider, ollama, gemini) ==
    CASE provider = "ollama" ->
           IF ollama # <<>> THEN SetDefaultPriority(ollama[1]) ELSE fallback_rca
      [] provider = "auto" /\ gemini = <<>> /\ ollama # <<>> -> SetDefaultPriority(ollama[1])
      [] OTHER ->
           IF gemini # <<>> THEN SetDefaultPriority(gemini[1]) ELSE fallback_rca

\* ollama, gemini: what call_ollama_for_rca and call_ai_for_rca return when called
generate_rca_and_recs(provider, ollama, gemini) ==
    CASE provider = "ollama" ->
           IF ollama # <<>> THEN SetDefaultPriority(ollama[1]) ELSE fallback_rca
      [] provider = "gemini" ->
           IF gemini # <<>> THEN SetDefaultPriority(gemini[1]) ELSE fallback_rca
      [] provider = "auto" ->
           IF ollama # <<>> THEN SetDefaultPriority(ollama[1])
           ELSE IF gemini # <<>> THEN SetDefaultPriority(gemini[1])
           ELSE fallback_rca
      [] OTHER ->
           IF gemini # <<>> THEN SetDefaultPriority(gemini[1]) ELSE fallback_rca

(***************************************************************************)
(* State.                                                                  *)
(***************************************************************************)
VARIABLES
    cfg,        \* process configuration read from the environment at start, and
                \* dashboards: whether manager.active_connections holds a
                \* dashboard connected to /ws
    now,        \* wall clock, seconds
    tickets,    \* tickets table: ticket id -> row
    attempts,   \* remediation_attempts table: rows in insertion (id) order
    audit,      \* audit_trail table: <<ticket id, action>> -> number of rows
    reqs,       \* alert requests: request id -> handler position and response
    tasks,      \* remediation cycles: id of the spawning request -> task state
    hist,       \* per cycle: the sleeps and external trigger calls it performed
    webhooks    \* number of Jira webhook deliveries handled

vars == <<cfg, now, tickets, attempts, audit, reqs, tasks, hist, webhooks>>

\* the configuration with every integration switched on but the payload
\* upload, which is off unless AZURE_BLOB_ENABLED is set; ConnectionManager()
\* starts with no connection
FullConfig ==
    [AUTO_REMEDIATION_ENABLED |-> TRUE, ITSM_TOOL |-> "jira", AI_PROVIDER |-> "auto",
     adf_monitoring |-> TRUE, playbooks |-> PlaybookEnvs, SLACK_BOT_TOKEN |-> TRUE,
     dashboards |-> FALSE, AZURE_BLOB_ENABLED |-> FALSE, blob_service_client |-> FALSE]

\* the payload upload as a process can be started: off; on, with a client of
\* the storage account; on without one (no AZURE_STORAGE_CONN)
BlobConfigs ==
    {FullConfig,
     [FullConfig EXCEPT !.AZURE_BLOB_ENABLED = TRUE, !.blob_service_client = TRUE],
     [FullConfig EXCEPT !.AZURE_BLOB_ENABLED = TRUE]}

Init ==
    /\ cfg = FullConfig
    /\ now = 0
    /\ tickets = <<>>
    /\ attempts = <<>>
    /\ audit = <<>>
    /\ reqs = <<>>
    /\ tasks = <<>>
    /\ hist = <<>>
    /\ webhooks = 0

\* a process started with or without the payload upload
InitBlob ==
    /\ cfg \in BlobConfigs
    /\ now = 0
    /\ tickets = <<>>
    /\ attempts = <<>>
    /\ audit = <<>>
    /\ reqs = <<>>
    /\ tasks = <<>>
    /\ hist = <<>>
    /\ webhooks = 0

(***************************************************************************)
(* Store helpers.                                                          *)
(***************************************************************************)
\* log_audit: one more audit_trail row for the ticket and action
log_audit(a, tid, action) ==
    IF <<tid, action>> \in DOMAIN a
    THEN [a EXCEPT ![<<tid, action>>] = @ + 1]
    ELSE a @@ (<<tid, action>> :> 1)

AuditCount(a, tid, action) ==
    IF <<tid, action>> \in DOMAIN a THEN a[<<tid, action>>] ELSE 0

\* SELECT id FROM tickets WHERE run_id = :run_id (NULL matches nothing)
TicketsWithRunId(tk, runid) ==
    {id \in DOMAIN tk : runid # NULL /\ tk[id].run_id = runid}

\* db_query(..., one=True): the first row, here the one with the least id
FirstOf(S) == CHOOSE id \in S : \A other \in S : id <= other

\* faulty variant: a tickets table without idx_tickets_run_id
NoUniqueIndex(tk, runid) == FALSE

\* idx_tickets_run_id: UNIQUE on tickets(run_id) WHERE run_id IS NOT NULL
UniqueViolation(tk, runid) == runid # NULL /\ TicketsWithRunId(tk, runid) # {}

\* Python truthiness of a run identifier: None and "" are false
Truthy(runid) == runid \notin {NULL, ""}

\* a row as the INSERT of either ingestion path leaves it
NewTicket(runid, rca, severity, priority, ts) ==
    [run_id |-> runid, timestamp |-> ts, error_type |-> rca.error_type,
     severity |-> severity, priority |-> priority, confidence |-> rca.confidence,
     status |-> "open", ack_user |-> NULL, ack_ts |-> NULLINT, ack_seconds |-> NULLINT,
     sla_seconds |-> sla_for_priority(priority), sla_status |-> "Pending",
     itsm_ticket_id |-> NULL, slack_ts |-> NULL, remediation_status |-> NULL,
     remediation_run_id |-> NULL, remediation_attempts |-> 0]

\* the key create_jira_ticket returns for a ticket
JiraKey(tid) == "JIRA-" \o ToString(tid)

\* what chat.postMessage does with post_slack_notification's message: "ok" is
\* status 200 with ts and channel, "error" status 200 without them, "failed"
\* another status or an exception
SlackAnswers == {"ok", "error", "failed"}

\* post_slack_notification: whether it returns a result that is truthy
SlackResult(c, slack) == c.SLACK_BOT_TOKEN /\ slack \in {"ok", "error"}

\* post_slack_notification: the tickets table after it
SlackThread(c, tk, tid, slack) ==
    IF c.SLACK_BOT_TOKEN /\ slack = "ok"
    THEN [tk EXCEPT ![tid].slack_ts = "ts-" \o ToString(tid)]
    ELSE tk

\* what send_json of the connected dashboard does with a message: "sent"
\* delivers it, "disconnect" raises WebSocketDisconnect, "error" raises another
\* exception
SendOutcomes == {"sent", "disconnect", "error"}

\* ConnectionManager.broadcast: whether its caller is suspended in send_json;
\* a send that raises does so at once, and without a connection nothing is sent
BroadcastSuspends(c, ws) == c.dashboards /\ ws = "sent"

\* ConnectionManager.broadcast: the connections after it; one whose send raised
\* WebSocketDisconnect is removed, any other exception leaves the list alone
broadcast(c, ws) ==
    IF c.dashboards /\ ws = "disconnect" THEN [c EXCEPT !.dashboards = FALSE] ELSE c

\* websocket_endpoint: a dashboard opens /ws and ConnectionManager.connect
\* appends it; the model follows one dashboard
connect ==
    /\ ~cfg.dashboards
    /\ cfg' = [cfg EXCEPT !.dashboards = TRUE]
    /\ UNCHANGED <<now, tickets, attempts, audit, reqs, tasks, hist, webhooks>>

\* websocket_endpoint: receive_text raises WebSocketDisconnect and
\* ConnectionManager.disconnect removes the dashboard
disconnect ==
    /\ cfg.dashboards
    /\ cfg' = [cfg EXCEPT !.dashboards = FALSE]
    /\ UNCHANGED <<now, tickets, attempts, audit, reqs, tasks, hist, webhooks>>

\* init_db's migration of the run_id column, run at every start of a server
\* process on the store it finds
init_db ==
    /\ tickets' = [id \in DOMAIN tickets |->
                      IF tickets[id].run_id \in {"N/A", ""}
                      THEN [tickets[id] EXCEPT !.run_id = NULL]
                      ELSE tickets[id]]
    /\ UNCHANGED <<cfg, now, attempts, audit, reqs, tasks, hist, webhooks>>


(***************************************************************************)
(* Alert ingestion: /azure-monitor and /databricks-monitor.                *)
(* A handler is a sequence of steps: the duplicate check; the INSERT and   *)
(* what follows it up to the await of create_jira_ticket; from there to    *)
(* the await of the dashboard broadcast; from there to the response.  A    *)
(* handler that has no Jira to call, no dashboard to send to, or a         *)
(* dashboard whose send_json raises, does not suspend there and goes on in *)
(* the same step.  Another handler's statements can fall between the check *)
(* and the INSERT: the store can be shared by several server processes     *)
(* (DB_TYPE azuresql), and with AZURE_BLOB_ENABLED azure_monitor awaits    *)
(* the upload of the payload there, after its analysis and after it has    *)
(* read the clock for the ticket's timestamp; the upload runs in a worker  *)
(* thread.                                                                 *)
(***************************************************************************)
\* rca and backends are the handler's analysis result and the backend calls behind it
Request(path, runid, pc, status, tid) ==
    [path |-> path, runid |-> runid, pc |-> pc, status |-> status, ticket_id |-> tid,
     rca |-> <<>>, backends |-> <<>>]

\* faulty variant: a handler that skips its duplicate check
NoDedupCheck(tk, runid) == {}

\* the rows the duplicate check of either path finds: none when the check is skipped
DedupCheck(tk, runid) ==
    IF Truthy(runid) THEN TicketsWithRunId(tk, runid) ELSE {}

\* the run_id each path stores
AzureStoredRunId(runid) == runid
DatabricksStoredRunId(runid) == IF Truthy(runid) THEN runid ELSE "N/A"

\* azure_monitor: severity, priority of the new ticket
AzurePriority(rca) ==
    Get(rca.priority, derive_priority(Get(rca.severity, "Medium")))

\* process_databricks_failure: priority of the new ticket
DatabricksPriority(rca) == derive_priority(Get(rca.severity, "Medium"))

\* faulty variant: the policy table alone decides
EligibleByTableOnly(c, rca) == rca.error_type \in DOMAIN REMEDIABLE_ERRORS

\* azure_monitor: whether the new ticket gets a remediation cycle
Eligible(c, rca) ==
    /\ c.AUTO_REMEDIATION_ENABLED
    /\ rca.auto_heal_possible
    /\ rca.error_type \in DOMAIN REMEDIABLE_ERRORS

NewTask(tid, error_type, n) ==
    [tid |-> tid, error_type |-> error_type, attempt |-> n, pc |-> "start",
     run |-> NULL, elapsed |-> 0, result |-> NULL, effects |-> <<>>]

\* azure_monitor up to its duplicate check; without a duplicate and with
\* AZURE_BLOB_ENABLED the handler goes on to the await of the upload
\* (azure_monitor_upload)
azure_monitor_check(runid, maxAlerts) ==
    /\ Len(reqs) < maxAlerts
    /\ LET existing == DedupCheck(tickets, runid)
       IN  IF existing # {}
           THEN /\ audit' = log_audit(audit, FirstOf(existing), "Duplicate Run Detected")
                /\ reqs' = Append(reqs, Request("azure", runid, "done",
                                                "duplicate_ignored", FirstOf(existing)))
           ELSE /\ ~cfg.AZURE_BLOB_ENABLED
                /\ audit' = audit
                /\ reqs' = Append(reqs, Request("azure", runid, "insert", NULL, NULLINT))
    /\ UNCHANGED <<cfg, now, tickets, attempts, tasks, hist, webhooks>>

\* a request suspended in the await of the upload: the analysis is made and
\* ts is the timestamp taken for the ticket
AwaitingUpload(path, runid, rca, backends, ts) ==
    [path |-> path, runid |-> runid, pc |-> "upload", status |-> NULL,
     ticket_id |-> NULLINT, rca |-> <<rca>>, backends |-> backends, ts |-> ts]

\* the request when the handler goes on after the upload
UploadAwaited(rq) ==
    [path |-> rq.path, runid |-> rq.runid, pc |-> rq.pc, status |-> rq.status,
     ticket_id |-> rq.ticket_id, rca |-> rq.rca, backends |-> rq.backends]

\* azure_monitor with AZURE_BLOB_ENABLED and no duplicate, from its entry to
\* the await of asyncio.to_thread(upload_payload_to_blob, tid, body): the
\* duplicate check, the analysis, the ticket id and the timestamp
azure_monitor_upload(runid, ollama, gemini, maxAlerts) ==
    /\ cfg.AZURE_BLOB_ENABLED
    /\ Len(reqs) < maxAlerts
    /\ DedupCheck(tickets, runid) = {}
    /\ reqs' = Append(reqs,
                      AwaitingUpload("azure", runid,
                                     generate_rca_and_recs(cfg.AI_PROVIDER, ollama, gemini),
                                     BackendsConsulted(cfg.AI_PROVIDER, ollama, gemini),
                                     now))
    /\ UNCHANGED <<cfg, now, tickets, attempts, audit, tasks, hist, webhooks>>

\* upload_payload_to_blob in its worker thread, for the id of a ticket that is
\* not inserted yet: without a client it returns at once; with one the upload
\* is saved or fails, and an audit row says which.  The thread does not wait
\* for the event loop; the handler goes on when the loop resumes it.
upload_payload_to_blob(rid, saved) ==
    /\ rid \in DOMAIN reqs
    /\ reqs[rid].pc = "upload"
    /\ audit' = IF ~cfg.blob_service_client THEN audit
                ELSE IF saved THEN log_audit(audit, rid, "Blob Payload Saved")
                ELSE log_audit(audit, rid, "Blob Upload Failed")
    /\ reqs' = [reqs EXCEPT ![rid].pc = "uploaded"]
    /\ UNCHANGED <<cfg, now, tickets, attempts, tasks, hist, webhooks>>

\* azure_monitor from the Slack notification to the response, on the request
\* table rq, the tickets table tk and the audit trail a
AzureNotify(rid, rq, tk, a, slack) ==
    LET rca == rq[rid].rca[1]
        a1 == IF SlackResult(cfg, slack)
              THEN log_audit(a, rid, "Slack Notification Sent") ELSE a
    IN  /\ Eligible(cfg, rca) => Cardinality(DOMAIN tasks) < MaxCycles
        /\ tickets' = SlackThread(cfg, tk, rid, slack)
        /\ reqs' = [rq EXCEPT ![rid].pc = "done", ![rid].status = "success"]
        /\ IF Eligible(cfg, rca)
           THEN /\ tasks' = tasks @@ (rid :> NewTask(rid, rca.error_type, 1))
                /\ hist' = hist @@ (rid :> <<>>)
                /\ audit' = log_audit(a1, rid, "auto_remediation_eligible")
           ELSE /\ audit' = a1
                /\ UNCHANGED <<tasks, hist>>

\* azure_monitor from the 'new_ticket' broadcast on: the handler is suspended
\* in send_json of a connected dashboard, or goes on to its response
AzureBroadcast(rid, rq, tk, a, slack, ws) ==
    IF BroadcastSuspends(cfg, ws)
    THEN /\ tickets' = tk
         /\ audit' = a
         /\ reqs' = [rq EXCEPT ![rid].pc = "broadcast"]
         /\ UNCHANGED <<cfg, tasks, hist>>
    ELSE /\ cfg' = broadcast(cfg, ws)
         /\ AzureNotify(rid, rq, tk, a, slack)

\* azure_monitor from its INSERT to its next suspension or its response;
\* analysed is the request table with the analysis rca of request rid in it,
\* ts the timestamp the handler took
AzureInsert(rid, analysed, rca, ts, slack, ws) ==
    LET runid == analysed[rid].runid
        severity == Get(rca.severity, "Medium")
        priority == AzurePriority(rca)
        stored == AzureStoredRunId(runid)
        row == NewTicket(stored, rca, severity, priority, ts)
        a1 == log_audit(log_audit(audit, rid, "Ticket Created"),
                        rid, "Azure Monitor Webhook Received")
        created == [analysed EXCEPT ![rid].ticket_id = rid]
    IN  IF UniqueViolation(tickets, stored)
        THEN \* "UNIQUE constraint failed": re-read and report the winner
             /\ reqs' = [analysed EXCEPT ![rid].pc = "done",
                                     ![rid].status = "duplicate_race_condition",
                                     ![rid].ticket_id =
                                         FirstOf(TicketsWithRunId(tickets, stored))]
             /\ UNCHANGED <<cfg, tickets, audit, tasks, hist>>
        ELSE IF cfg.ITSM_TOOL = "jira"
        THEN \* await asyncio.to_thread(create_jira_ticket, ...)
             /\ tickets' = tickets @@ (rid :> row)
             /\ audit' = a1
             /\ reqs' = [created EXCEPT ![rid].pc = "jira"]
             /\ UNCHANGED <<cfg, tasks, hist>>
        ELSE AzureBroadcast(rid, created, tickets @@ (rid :> row), a1, slack, ws)

\* azure_monitor from the analysis to its next suspension or its response
azure_monitor_insert(rid, ollama, gemini, slack, ws) ==
    /\ rid \in DOMAIN reqs
    /\ reqs[rid].path = "azure"
    /\ reqs[rid].pc = "insert"
    /\ AzureInsert(rid,
                   [reqs EXCEPT ![rid].rca =
                                    <<generate_rca_and_recs(cfg.AI_PROVIDER, ollama, gemini)>>,
                                ![rid].backends =
                                    BackendsConsulted(cfg.AI_PROVIDER, ollama, gemini)],
                   generate_rca_and_recs(cfg.AI_PROVIDER, ollama, gemini),
                   now, slack, ws)
    /\ UNCHANGED <<now, attempts, webhooks>>

\* azure_monitor resumed after the upload, from its INSERT to its next
\* suspension or its response
azure_monitor_uploaded(rid, slack, ws) ==
    /\ rid \in DOMAIN reqs
    /\ reqs[rid].path = "azure"
    /\ reqs[rid].pc = "uploaded"
    /\ AzureInsert(rid, [reqs EXCEPT ![rid] = UploadAwaited(@)],
                   reqs[rid].rca[1], reqs[rid].ts, slack, ws)
    /\ UNCHANGED <<now, attempts, webhooks>>

\* azure_monitor resumed with what create_jira_ticket returned
azure_monitor_jira(rid, jira_ok, slack, ws) ==
    /\ rid \in DOMAIN reqs
    /\ reqs[rid].path = "azure"
    /\ reqs[rid].pc = "jira"
    /\ IF jira_ok
       THEN AzureBroadcast(rid, reqs,
                           [tickets EXCEPT ![rid].itsm_ticket_id = JiraKey(rid)],
                           log_audit(audit, rid, "Jira Ticket Created"), slack, ws)
       ELSE AzureBroadcast(rid, reqs, tickets,
                           log_audit(audit, rid, "Jira Ticket Failed"), slack, ws)
    /\ UNCHANGED <<now, attempts, webhooks>>

\* azure_monitor resumed after the 'new_ticket' broadcast
azure_monitor_notify(rid, slack) ==
    /\ rid \in DOMAIN reqs
    /\ reqs[rid].path = "azure"
    /\ reqs[rid].pc = "broadcast"
    /\ AzureNotify(rid, reqs, tickets, audit, slack)
    /\ UNCHANGED <<cfg, now, attempts, webhooks>>

\* process_databricks_failure up to its duplicate check
process_databricks_failure_check(runid, maxAlerts) ==
    /\ Len(reqs) < maxAlerts
    /\ LET existing == DedupCheck(tickets, runid)
       IN  IF existing # {}
           THEN reqs' = Append(reqs, Request("databricks", runid, "done",
                                             "duplicate_ignored", FirstOf(existing)))
           ELSE reqs' = Append(reqs, Request("databricks", runid, "insert", NULL, NULLINT))
    /\ UNCHANGED <<cfg, now, tickets, attempts, audit, tasks, hist, webhooks>>

\* process_databricks_failure from the Slack notification to the response
DatabricksNotify(rid, rq, tk, slack) ==
    /\ tickets' = SlackThread(cfg, tk, rid, slack)
    /\ reqs' = [rq EXCEPT ![rid].pc = "done", ![rid].status = "ticket_created"]

\* process_databricks_failure from the 'new_ticket' broadcast on
DatabricksBroadcast(rid, rq, tk, slack, ws) ==
    IF BroadcastSuspends(cfg, ws)
    THEN /\ tickets' = tk
         /\ reqs' = [rq EXCEPT ![rid].pc = "broadcast"]
         /\ UNCHANGED cfg
    ELSE /\ cfg' = broadcast(cfg, ws)
         /\ DatabricksNotify(rid, rq, tk, slack)

\* process_databricks_failure from the analysis to its next suspension or its
\* response
process_databricks_failure_insert(rid, ollama, gemini, slack, ws) ==
    /\ rid \in DOMAIN reqs
    /\ reqs[rid].path = "databricks"
    /\ reqs[rid].pc = "insert"
    /\ LET runid == reqs[rid].runid
           rca == generate_rca_and_recs(cfg.AI_PROVIDER, ollama, gemini)
           severity == Get(rca.severity, "Medium")
           priority == DatabricksPriority(rca)
           stored == DatabricksStoredRunId(runid)
           row == NewTicket(stored, rca, severity, priority, now)
           analysed == [reqs EXCEPT ![rid].rca = <<rca>>,
                                    ![rid].backends =
                                        BackendsConsulted(cfg.AI_PROVIDER, ollama, gemini)]
           created == [analysed EXCEPT ![rid].ticket_id = rid]
       IN  IF UniqueViolation(tickets, stored)
           THEN \* the INSERT raises and nothing catches it: the request fails
                /\ reqs' = [analysed EXCEPT ![rid].pc = "done", ![rid].status = "error_500"]
                /\ UNCHANGED <<cfg, tickets, audit>>
           ELSE /\ audit' = log_audit(audit, rid, "Ticket Created")
                /\ IF cfg.ITSM_TOOL = "jira"
                   THEN \* await asyncio.to_thread(create_jira_ticket, ...)
                        /\ tickets' = tickets @@ (rid :> row)
                        /\ reqs' = [created EXCEPT ![rid].pc = "jira"]
                        /\ UNCHANGED cfg
                   ELSE DatabricksBroadcast(rid, created, tickets @@ (rid :> row),
                                            slack, ws)
    /\ UNCHANGED <<now, attempts, tasks, hist, webhooks>>

\* process_databricks_failure resumed with what create_jira_ticket returned
process_databricks_failure_jira(rid, jira_ok, slack, ws) ==
    /\ rid \in DOMAIN reqs
    /\ reqs[rid].path = "databricks"
    /\ reqs[rid].pc = "jira"
    /\ DatabricksBroadcast(rid, reqs,
                           IF jira_ok
                           THEN [tickets EXCEPT ![rid].itsm_ticket_id = JiraKey(rid)]
                           ELSE tickets,
                           slack, ws)
    /\ UNCHANGED <<now, attempts, audit, tasks, hist, webhooks>>

\* process_databricks_failure resumed after the 'new_ticket' broadcast
process_databricks_failure_notify(rid, slack) ==
    /\ rid \in DOMAIN reqs
    /\ reqs[rid].path = "databricks"
    /\ reqs[rid].pc = "broadcast"
    /\ DatabricksNotify(rid, reqs, tickets, slack)
    /\ UNCHANGED <<cfg, now, attempts, audit, tasks, hist, webhooks>>


(***************************************************************************)
(* The remediation cycle.                                                  *)
(***************************************************************************)
\* what one POST to the playbook can do: answer with a status, or raise
TryOutcomes ==
    {[raised |-> FALSE, status_code |-> c] : c \in {200, 202, 404, 503}}
        \cup {[raised |-> TRUE, status_code |-> 0]}

\* faulty variant: a helper for which only a 2xx or 3xx answer is final
post_retries_4xx(tries) ==
    LET final == {i \in 1..Len(tries) : ~tries[i].raised /\ tries[i].status_code < 400}
    IN  IF final # {}
        THEN [raised |-> FALSE, status_code |-> tries[FirstOf(final)].status_code,
              posts |-> FirstOf(final)]
        ELSE [raised |-> tries[Len(tries)].raised,
              status_code |-> tries[Len(tries)].status_code, posts |-> Len(tries)]

\* _http_post_with_retries: tries[i] is what the i-th POST would do.
\* The first answer below 500 is returned at once; after the last try the
\* last answer is returned, or the last exception raised.
FirstFinal(tries) ==
    {i \in 1..Len(tries) : ~tries[i].raised /\ tries[i].status_code < 500}

_http_post_with_retries(tries) ==
    IF FirstFinal(tries) # {}
    THEN LET i == FirstOf(FirstFinal(tries))
         IN  [raised |-> FALSE, status_code |-> tries[i].status_code, posts |-> i]
    ELSE [raised |-> tries[Len(tries)].raised,
          status_code |-> tries[Len(tries)].status_code, posts |-> Len(tries)]

\* trigger_auto_remediation: "if response and response.status_code == 200"
TriggerSucceeded(r) == ~r.raised /\ r.status_code = 200

\* faulty variant: a classification missing from the table is reported as exhausted
TriggerGuardTableless(c, error_type, n) ==
    IF error_type \notin DOMAIN REMEDIABLE_ERRORS THEN "Max retries exceeded"
    ELSE IF n > REMEDIABLE_ERRORS[error_type].max_retries THEN "Max retries exceeded"
    ELSE "ok"

\* faulty variant: the playbook URL is not looked at before the POST
TriggerGuardNoPlaybook(c, error_type, n) ==
    IF error_type \notin DOMAIN REMEDIABLE_ERRORS THEN "Error type not remediable"
    ELSE IF n > REMEDIABLE_ERRORS[error_type].max_retries THEN "Max retries exceeded"
    ELSE "ok"

\* trigger_auto_remediation's early returns, in the code's order
TriggerGuard(c, error_type, n) ==
    IF error_type \notin DOMAIN REMEDIABLE_ERRORS THEN "Error type not remediable"
    ELSE IF n > REMEDIABLE_ERRORS[error_type].max_retries THEN "Max retries exceeded"
    ELSE IF REMEDIABLE_ERRORS[error_type].playbook_url \notin c.playbooks
         THEN "Playbook URL not configured"
    ELSE "ok"

\* faulty variant: past the end of the sequence the last delay is waited
BackoffWaitClamped(backoff_seconds, attempt_number) ==
    LET backoff_index == attempt_number - 2
    IN  IF attempt_number > 1
        THEN IF backoff_index < Len(backoff_seconds)
             THEN <<backoff_seconds[backoff_index + 1]>>
             ELSE <<backoff_seconds[Len(backoff_seconds)]>>
        ELSE <<>>

\* trigger_auto_remediation, "Calculate backoff delay", for a policy's delay
\* sequence and an attempt number: <<d>> when it sleeps d seconds, <<>> when
\* it does not sleep (attempt 1, and an index past the end of the sequence)
BackoffWait(backoff_seconds, attempt_number) ==
    LET backoff_index == attempt_number - 2
    IN  IF attempt_number > 1 /\ backoff_index < Len(backoff_seconds)
        THEN <<backoff_seconds[backoff_index + 1]>>
        ELSE <<>>

\* the backoff of a call for a classification of the policy table
BackoffDelay(error_type, n) ==
    BackoffWait(REMEDIABLE_ERRORS[error_type].backoff_seconds, n)

Event(ev, n, arg) == [ev |-> ev, n |-> n, arg |-> arg]

\* backoff = 1.5 seconds, in milliseconds
HttpBackoffMs == 1500

\* what _http_post_with_retries does from its i-th POST on: each POST, and the
\* time.sleep(backoff * attempt) that follows a POST answered 5xx or raising
RECURSIVE PostTrace(_, _)
PostTrace(tries, i) ==
    IF i > Len(tries) THEN <<>>
    ELSE IF tries[i].raised
    THEN <<Event("POST raised", i, 0), Event("time.sleep", i, HttpBackoffMs * i)>>
             \o PostTrace(tries, i + 1)
    ELSE IF tries[i].status_code < 500
    THEN <<Event("POST", i, tries[i].status_code)>>
    ELSE <<Event("POST", i, tries[i].status_code), Event("time.sleep", i, HttpBackoffMs * i)>>
             \o PostTrace(tries, i + 1)

\* the run handle the playbook answers with for a ticket's n-th attempt
RunHandle(tid, n) == "run-" \o ToString(tid) \o "-" \o ToString(n)

\* faulty variant: attempt rows numbered from 0
AttemptRowFromZero(tid, run, n, status) ==
    [ticket_id |-> tid, remediation_run_id |-> run, attempt_number |-> n - 1,
     status |-> status, failure_reason |-> NULL]

AttemptRow(tid, run, n, status) ==
    [ticket_id |-> tid, remediation_run_id |-> run, attempt_number |-> n,
     status |-> status, failure_reason |-> NULL]

\* faulty variant: an UPDATE of remediation_attempts that matches no row
MarkNoAttempt(att, tid, run, status, reason) == att

\* UPDATE remediation_attempts SET status [, failure_reason]
\*   WHERE ticket_id = :ticket_id AND remediation_run_id = :remediation_run_id
\* (reason Absent: the statement does not set failure_reason)
MarkAttempts(att, tid, run, status, reason) ==
    [i \in DOMAIN att |->
        IF att[i].ticket_id = tid /\ att[i].remediation_run_id = run
        THEN [att[i] EXCEPT !.status = status,
                            !.failure_reason = IF reason = Absent THEN @ ELSE reason]
        ELSE att[i]]

\* faulty variant: an SLA that is breached at the limit itself
SlaStrict(diff, sla_seconds) == IF diff < sla_seconds THEN "Met" ELSE "Breached"

\* the SLA outcome both closing paths compute
SlaStatus(diff, sla_seconds) == IF diff <= sla_seconds THEN "Met" ELSE "Breached"

\* every result _http_post_with_retries can hand to trigger_auto_remediation
PostResults ==
    {_http_post_with_retries(tries) : tries \in [1..HttpRetries -> TryOutcomes]}

\* the notification sink that fails during a step, if any: a Slack post that
\* raises or answers with an error, a websocket send that raises ("websocket
\* closed": WebSocketDisconnect, "websocket": another exception), a Jira close
\* that raises
NoSinkFailure == "none"

Sinks == {NoSinkFailure, "slack", "websocket", "websocket closed", "jira"}

\* what send_json of the connected dashboard does during the step
SendOutcome(failed) ==
    IF failed = "websocket" THEN "error"
    ELSE IF failed = "websocket closed" THEN "disconnect"
    ELSE "sent"

\* faulty variant: the failure of a sink reaches the step that called it
SinkAbortsStep(failed) == failed # NoSinkFailure

\* whether the failure of a sink leaves the try/except around its call
SinkAborts(failed) == FALSE

\* a handler called from the monitor's loop, after its sink calls: an exception
\* that leaves the handler is caught by the loop, which sleeps and polls again
AfterSinks(k, failed, done) ==
    IF SinkAborts(failed)
    THEN [tasks EXCEPT ![k].elapsed = @ + poll_interval]
    ELSE done

\* faulty variant: the monitor is started before anything is persisted
TriggerEffectsMonitorFirst ==
    <<"create_task monitor_remediation_run", "INSERT remediation_attempts",
      "UPDATE tickets", "remediation_started">>

\* trigger_auto_remediation: what it does, in order, once the playbook has
\* accepted the trigger
TriggerEffects ==
    <<"INSERT remediation_attempts", "UPDATE tickets", "remediation_started",
      "create_task monitor_remediation_run">>

\* trigger_auto_remediation: the message it returns when the call failed; a
\* response is falsy from status 400 on
TriggerFailureMessage(r) ==
    IF r.raised THEN "exception"
    ELSE IF r.status_code < 400 THEN "Logic App error: " \o ToString(r.status_code)
    ELSE "Logic App error: No response"

\* what follows the return of _http_post_with_retries with r in
\* trigger_auto_remediation, to the function's next suspension or its return;
\* ts holds the tasks as they are when the helper returns
TriggerPostFrom(ts, k, r, has_run, failed) ==
    LET t == ts[k]
        run == IF has_run THEN RunHandle(t.tid, t.attempt) ELSE "N/A"
    IN  /\ hist' = [hist EXCEPT ![k] = Append(@, Event("post", t.attempt, 0))]
        /\ IF TriggerSucceeded(r)
           THEN /\ attempts' = Append(attempts,
                                      AttemptRow(t.tid, run, t.attempt, "in_progress"))
                /\ tickets' = [tickets EXCEPT ![t.tid].remediation_status = "in_progress",
                                              ![t.tid].remediation_run_id = run,
                                              ![t.tid].remediation_attempts = t.attempt]
                /\ audit' = log_audit(audit, t.tid, "auto_remediation_triggered")
                /\ IF SinkAborts(failed)
                   THEN \* caught by the function's own except: no monitor is started
                        /\ tasks' = [ts EXCEPT ![k].pc = "done", ![k].run = run,
                                                  ![k].result = "exception",
                                                  ![k].effects =
                                                      SubSeq(TriggerEffects, 1, 2)]
                        /\ UNCHANGED cfg
                   ELSE IF BroadcastSuspends(cfg, SendOutcome(failed))
                   THEN \* suspended in send_json of the 'remediation_started' broadcast
                        /\ tasks' = [ts EXCEPT ![k].pc = "trigger_broadcast",
                                                  ![k].run = run,
                                                  ![k].effects =
                                                      SubSeq(TriggerEffects, 1, 3)]
                        /\ UNCHANGED cfg
                   ELSE /\ tasks' = [ts EXCEPT ![k].pc = "monitor_start",
                                                  ![k].run = run, ![k].elapsed = 0,
                                                  ![k].result = "success",
                                                  ![k].effects = TriggerEffects]
                        /\ cfg' = broadcast(cfg, SendOutcome(failed))
           ELSE /\ tasks' = [ts EXCEPT ![k].pc = "done",
                                          ![k].result = TriggerFailureMessage(r)]
                /\ UNCHANGED <<cfg, attempts, tickets, audit>>

\* the POST of trigger_auto_remediation, made by _http_post_with_retries with
\* its retries and the time.sleep between them, and what follows it, to the
\* function's next suspension or its return
TriggerPost(k, r, has_run, failed) == TriggerPostFrom(tasks, k, r, has_run, failed)

\* a call of _http_post_with_retries whose POSTs do what tries says: the call's
\* task keeps what it was given and what it returned, hist what it did
http_post_call(tries, maxCalls) ==
    /\ Cardinality(DOMAIN tasks \cap CallIds) < maxCalls
    /\ LET c == FirstOf(CallIds \ DOMAIN tasks)
       IN  /\ tasks' = tasks @@ (c :> [pc |-> "done", tries |-> tries,
                                        response |-> _http_post_with_retries(tries)])
           /\ hist' = hist @@ (c :> PostTrace(tries, 1))
    /\ UNCHANGED <<cfg, now, tickets, attempts, audit, reqs, webhooks>>

\* the backoff computation of trigger_auto_remediation run on a delay sequence
\* and an attempt number: the call's task keeps what it was given, hist the
\* sleep it made, if any
backoff_call(backoff_seconds, attempt_number, maxCalls) ==
    /\ Cardinality(DOMAIN tasks \cap CallIds) < maxCalls
    /\ LET c == FirstOf(CallIds \ DOMAIN tasks)
           wait == BackoffWait(backoff_seconds, attempt_number)
       IN  /\ tasks' = tasks @@ (c :> [pc |-> "done",
                                        backoff_seconds |-> backoff_seconds,
                                        attempt |-> attempt_number])
           /\ hist' = hist @@ (c :> IF wait = <<>> THEN <<>>
                                    ELSE <<Event("sleep", attempt_number, wait[1])>>)
    /\ UNCHANGED <<cfg, now, tickets, attempts, audit, reqs, webhooks>>

\* a caller enters trigger_auto_remediation for ticket tid with a classification
\* and an attempt number of its own choosing
invoke_trigger(tid, error_type, n, maxCalls) ==
    /\ tid \in DOMAIN tickets
    /\ Cardinality(DOMAIN tasks \cap CallIds) < maxCalls
    /\ LET k == FirstOf(CallIds \ DOMAIN tasks)
       IN  /\ tasks' = tasks @@ (k :> NewTask(tid, error_type, n))
           /\ hist' = hist @@ (k :> <<>>)
    /\ UNCHANGED <<cfg, now, tickets, attempts, audit, reqs, webhooks>>

\* trigger_auto_remediation from its entry to its first suspension or its return
trigger_auto_remediation(k, r, has_run, failed) ==
    /\ k \in DOMAIN tasks
    /\ tasks[k].pc = "start"
    /\ LET t == tasks[k]
           guard == TriggerGuard(cfg, t.error_type, t.attempt)
       IN  IF guard # "ok"
           THEN /\ tasks' = [tasks EXCEPT ![k].pc = "done", ![k].result = guard]
                /\ UNCHANGED <<cfg, tickets, attempts, audit, hist>>
           ELSE IF BackoffDelay(t.error_type, t.attempt) # <<>>
           THEN \* await asyncio.sleep(delay)
                /\ tasks' = [tasks EXCEPT ![k].pc = "backoff"]
                /\ hist' = [hist EXCEPT ![k] =
                               Append(@, Event("sleep", t.attempt,
                                               BackoffDelay(t.error_type, t.attempt)[1]))]
                /\ UNCHANGED <<cfg, tickets, attempts, audit>>
           ELSE TriggerPost(k, r, has_run, failed)
    /\ UNCHANGED <<now, reqs, webhooks>>

\* trigger_auto_remediation resumed after its backoff sleep
trigger_after_backoff(k, r, has_run, failed) ==
    /\ k \in DOMAIN tasks
    /\ tasks[k].pc = "backoff"
    /\ TriggerPost(k, r, has_run, failed)
    /\ UNCHANGED <<now, reqs, webhooks>>

\* trigger_auto_remediation resumed after the 'remediation_started' broadcast
trigger_after_broadcast(k) ==
    /\ k \in DOMAIN tasks
    /\ tasks[k].pc = "trigger_broadcast"
    /\ tasks' = [tasks EXCEPT ![k].pc = "monitor_start", ![k].elapsed = 0,
                              ![k].result = "success", ![k].effects = TriggerEffects]
    /\ UNCHANGED <<cfg, now, tickets, attempts, audit, reqs, hist, webhooks>>

\* the POSTs after which _http_post_with_retries goes on: answered 5xx, or raising
FailingTries == {o \in TryOutcomes : o.raised \/ o.status_code >= 500}

\* the results of a call whose first POST was final: the helper made no time.sleep
FirstPostResults ==
    {r \in PostResults : r.posts = 1 /\ ~r.raised /\ r.status_code < 500}

\* a task inside time.sleep(backoff * i) of _http_post_with_retries, last
\* being what its i-th POST did
InTimeSleep(t, i, last) ==
    [tid |-> t.tid, error_type |-> t.error_type, attempt |-> t.attempt,
     pc |-> "time.sleep", run |-> t.run, elapsed |-> t.elapsed, result |-> t.result,
     effects |-> t.effects, slept |-> i, last |-> last]

\* the task when the helper has returned
HelperReturned(t) ==
    [tid |-> t.tid, error_type |-> t.error_type, attempt |-> t.attempt,
     pc |-> t.pc, run |-> t.run, elapsed |-> t.elapsed, result |-> t.result,
     effects |-> t.effects]

\* time.sleep is called on the thread of the event loop, from the coroutine
\* itself (_http_post_with_retries is not awaited and not run in a thread):
\* until it returns the loop runs nothing else
LoopHeld == \E k \in DOMAIN tasks : tasks[k].pc = "time.sleep"

\* trigger_auto_remediation calls _http_post_with_retries, at its entry or
\* after its backoff sleep, and the first POST fails: the helper is in
\* time.sleep(backoff * 1)
trigger_post_failed(k, o) ==
    /\ k \in DOMAIN tasks
    /\ o \in FailingTries
    /\ LET t == tasks[k]
       IN  /\ \/ t.pc = "backoff"
              \/ /\ t.pc = "start"
                 /\ TriggerGuard(cfg, t.error_type, t.attempt) = "ok"
                 /\ BackoffDelay(t.error_type, t.attempt) = <<>>
           /\ tasks' = [tasks EXCEPT ![k] = InTimeSleep(t, 1, o)]
    /\ UNCHANGED <<cfg, now, tickets, attempts, audit, reqs, hist, webhooks>>

\* _http_post_with_retries when time.sleep(backoff * i) returns: the next POST,
\* which fails, and the next time.sleep; or the next POST, which is final, or
\* after the last try the last answer or error, and with the helper's return
\* the rest of trigger_auto_remediation
post_after_sleep(k, o, has_run, failed) ==
    /\ k \in DOMAIN tasks
    /\ tasks[k].pc = "time.sleep"
    /\ LET t == tasks[k]
           returned == [tasks EXCEPT ![k] = HelperReturned(t)]
       IN  IF t.slept < HttpRetries /\ o \in FailingTries
           THEN /\ tasks' = [tasks EXCEPT ![k] = InTimeSleep(t, t.slept + 1, o)]
                /\ UNCHANGED <<cfg, tickets, attempts, audit, hist>>
           ELSE IF t.slept < HttpRetries
           THEN TriggerPostFrom(returned, k,
                                [raised |-> FALSE, status_code |-> o.status_code,
                                 posts |-> t.slept + 1],
                                has_run, failed)
           ELSE TriggerPostFrom(returned, k,
                                [raised |-> t.last.raised,
                                 status_code |-> t.last.status_code,
                                 posts |-> HttpRetries],
                                has_run, failed)
    /\ UNCHANGED <<now, reqs, webhooks>>

\* monitor_remediation_run up to its polling loop
monitor_start(k, token_ok) ==
    /\ k \in DOMAIN tasks
    /\ tasks[k].pc = "monitor_start"
    /\ IF cfg.adf_monitoring /\ token_ok
       THEN tasks' = [tasks EXCEPT ![k].pc = "polling", ![k].elapsed = 0]
       ELSE tasks' = [tasks EXCEPT ![k].pc = "done", ![k].result = "not monitored"]
    /\ UNCHANGED <<cfg, now, tickets, attempts, audit, reqs, hist, webhooks>>

\* faulty variant: success recorded on the attempt, the ticket left as it was
success_marks_attempt_only(k, failed) ==
    /\ attempts' = MarkAttempts(attempts, tasks[k].tid, tasks[k].run, "succeeded", Absent)
    /\ audit' = log_audit(audit, tasks[k].tid, "auto_remediation_success")
    /\ tasks' = [tasks EXCEPT ![k].pc = "done", ![k].result = "succeeded"]
    /\ cfg' = broadcast(cfg, SendOutcome(failed))
    /\ UNCHANGED tickets

\* handle_remediation_success: the attempt rows and the ticket after it
handle_remediation_success(k, failed) ==
    LET t == tasks[k]
        row == tickets[t.tid]
        diff == now - row.timestamp
    IN  /\ attempts' = MarkAttempts(attempts, t.tid, t.run, "succeeded", Absent)
        /\ tickets' = [tickets EXCEPT ![t.tid].status = "acknowledged",
                                      ![t.tid].remediation_status = "succeeded",
                                      ![t.tid].ack_user = "AI_AUTO_HEAL",
                                      ![t.tid].ack_ts = now,
                                      ![t.tid].ack_seconds = diff,
                                      ![t.tid].sla_status = SlaStatus(diff, row.sla_seconds)]
        /\ audit' = log_audit(audit, t.tid, "auto_remediation_success")
        /\ tasks' = AfterSinks(k, failed,
                               [tasks EXCEPT ![k].pc = "done", ![k].result = "succeeded"])
        /\ cfg' = broadcast(cfg, SendOutcome(failed))

\* the answer of the status endpoint for a failed run carries "message": null:
\* run_data.get("message", ...) is None
NullFailureMessage == "null message"

\* handle_remediation_failure: failure_reason
FailureReason(failed) == IF failed = NullFailureMessage THEN NULL ELSE "Unknown failure"

\* handle_max_retries_exceeded: whether the escalation alert raises; it is
\* sent for a ticket with a Slack thread, and with a token configured
\* send_slack_escalation_alert takes failure_reason[:200] outside its try
EscalationRaises(c, row, failed) ==
    /\ row.slack_ts # NULL
    /\ c.SLACK_BOT_TOKEN
    /\ failed = NullFailureMessage

\* faulty variant: an escalation that leaves the ticket's status as it was
escalate_keeps_status(k, att, failed) ==
    /\ attempts' = att
    /\ tickets' = [tickets EXCEPT ![tasks[k].tid].remediation_status = "max_retries_exceeded"]
    /\ audit' = log_audit(log_audit(audit, tasks[k].tid, "auto_remediation_attempt_failed"),
                          tasks[k].tid, "auto_remediation_max_retries_exceeded")
    /\ tasks' = [tasks EXCEPT ![k].pc = "done", ![k].result = "escalated"]
    /\ cfg' = broadcast(cfg, SendOutcome(failed))

\* handle_max_retries_exceeded
handle_max_retries_exceeded(k, att, failed) ==
    LET t == tasks[k]
    IN  /\ attempts' = att
        /\ tickets' = [tickets EXCEPT ![t.tid].remediation_status = "max_retries_exceeded",
                                      ![t.tid].status = "open"]
        /\ audit' = log_audit(log_audit(audit, t.tid, "auto_remediation_attempt_failed"),
                              t.tid, "auto_remediation_max_retries_exceeded")
        /\ tasks' = IF EscalationRaises(cfg, tickets[t.tid], failed)
                     THEN \* caught by the monitor's loop, which sleeps and polls again
                          [tasks EXCEPT ![k].elapsed = @ + poll_interval]
                     ELSE AfterSinks(k, failed,
                                     [tasks EXCEPT ![k].pc = "done",
                                                   ![k].result = "escalated"])
        /\ cfg' = IF EscalationRaises(cfg, tickets[t.tid], failed)
                  THEN \* the broadcast is not reached
                       cfg
                  ELSE broadcast(cfg, SendOutcome(failed))

\* faulty variant: a failure handler that never runs out of retries
AlwaysRetry(error_type, n) == TRUE

\* handle_remediation_failure: whether another attempt follows
RetryAvailable(error_type, n) ==
    /\ error_type \in DOMAIN REMEDIABLE_ERRORS
    /\ n < REMEDIABLE_ERRORS[error_type].max_retries

\* faulty variant: a failed attempt is triggered again under its own number,
\* whatever the policy's limit
failure_retries_same_attempt(k, failed) ==
    /\ attempts' = MarkAttempts(attempts, tasks[k].tid, tasks[k].run, "failed",
                                "Unknown failure")
    /\ audit' = log_audit(audit, tasks[k].tid, "auto_remediation_attempt_failed")
    /\ tasks' = [tasks EXCEPT ![k].pc = "start"]
    /\ UNCHANGED <<cfg, tickets>>

\* handle_remediation_failure
handle_remediation_failure(k, failed) ==
    LET t == tasks[k]
        att == MarkAttempts(attempts, t.tid, t.run, "failed", FailureReason(failed))
    IN  IF RetryAvailable(t.error_type, t.attempt)
        THEN \* await trigger_auto_remediation(..., attempt_number + 1)
             /\ attempts' = att
             /\ audit' = log_audit(audit, t.tid, "auto_remediation_attempt_failed")
             /\ tasks' = AfterSinks(k, failed,
                                    [tasks EXCEPT ![k].pc = "start",
                                                  ![k].attempt = t.attempt + 1])
             /\ UNCHANGED <<cfg, tickets>>
        ELSE handle_max_retries_exceeded(k, att, failed)

\* faulty variant: a monitor that treats its timeout as a failed run
retry_on_timeout(k) == handle_remediation_failure(k, NoSinkFailure)

\* handle_remediation_timeout
handle_remediation_timeout(k) ==
    LET t == tasks[k]
    IN  /\ attempts' = MarkAttempts(attempts, t.tid, t.run, "timeout",
                                    "Monitoring timeout reached (1 hour)")
        /\ audit' = log_audit(audit, t.tid, "auto_remediation_monitoring_timeout")
        /\ tasks' = [tasks EXCEPT ![k].pc = "done", ![k].result = "timeout"]
        /\ UNCHANGED <<cfg, tickets>>

\* what one poll of the status endpoint can return
\* "401": the token is refreshed; "401 no token": the refresh returns None
PollOutcomes ==
    {"Succeeded", "Failed", "Cancelled", "InProgress", "401", "401 no token", "500",
     "exception"}

\* faulty variant: an authorization failure is taken for a failed run
PollFailedOr401(outcome) == outcome \in {"Failed", "Cancelled", "401", "401 no token"}

\* the answers on which the loop calls handle_remediation_failure
PollFailed(outcome) == outcome \in {"Failed", "Cancelled"}

\* one iteration of monitor_remediation_run's loop; the status endpoint leaves
\* at most maxPending polls of an attempt without a terminal status
monitor_poll(k, outcome, maxPending, failed) ==
    /\ k \in DOMAIN tasks
    /\ tasks[k].pc = "polling"
    /\ tasks[k].elapsed < max_poll_duration
    /\ outcome \notin {"Succeeded", "Failed", "Cancelled"}
          => tasks[k].elapsed < maxPending * poll_interval
    /\ CASE outcome = "Succeeded" -> handle_remediation_success(k, failed)
         [] PollFailed(outcome) -> handle_remediation_failure(k, failed)
         [] OTHER -> \* await asyncio.sleep(poll_interval); elapsed += poll_interval
              /\ tasks' = [tasks EXCEPT ![k].elapsed = @ + poll_interval]
              /\ UNCHANGED <<cfg, tickets, attempts, audit>>
    /\ UNCHANGED <<now, reqs, hist, webhooks>>

\* monitor_remediation_run once its loop has run out
monitor_timeout(k) ==
    /\ k \in DOMAIN tasks
    /\ tasks[k].pc = "polling"
    /\ tasks[k].elapsed >= max_poll_duration
    /\ handle_remediation_timeout(k)
    /\ UNCHANGED <<now, reqs, hist, webhooks>>

(***************************************************************************)
(* The Jira status webhook.                                                *)
(***************************************************************************)
\* changelog "toString" values of a status change
JiraStatusNames == {"Done", "done", "Resolved", "In Progress", "Selected for Development",
                    "To Do"}

\* body["user"]["displayName"] of a delivery: a name, or no such key
JiraUsers == {Absent, "Asha Rao"}

\* one status change that closes, one that starts work, one that reopens
LifecycleStatusNames == {"done", "In Progress", "To Do"}

\* webhook_jira: the user_name it passes to perform_close_from_jira
JiraUserName(user) == Get(user, "Jira User")

\* webhook_jira: the local status a Jira status name maps to
NewLocalStatus(name) ==
    IF lower(name) \in {"done", "resolved", "closed"} THEN "acknowledged"
    ELSE IF lower(name) \in {"in progress", "selected for development", "in review"}
         THEN "in_progress"
    ELSE "open"

\* webhook_jira's reading of each status name: the action of its audit row
\* and the local status
JiraStatusReading ==
    [name \in JiraStatusNames |->
        [action |-> "Jira: " \o title(name), new_local_status |-> NewLocalStatus(name)]]

\* faulty variant: a webhook that closes whatever the ticket's status is
webhook_jira_reclose(tid, name, user, ws, maxWebhooks) ==
    /\ webhooks < maxWebhooks
    /\ tid \in DOMAIN tickets
    /\ tickets[tid].itsm_ticket_id # NULL
    /\ webhooks' = webhooks + 1
    /\ LET ticket == tickets[tid]
           diff == now - ticket.timestamp
           a1 == log_audit(audit, tid, JiraStatusReading[name].action)
       IN  IF JiraStatusReading[name].new_local_status = "acknowledged"
           THEN /\ tickets' = [tickets EXCEPT ![tid].status = "acknowledged",
                                             ![tid].ack_user = JiraUserName(user),
                                             ![tid].ack_ts = now,
                                             ![tid].ack_seconds = diff,
                                             ![tid].sla_status =
                                                 SlaStatus(diff, ticket.sla_seconds)]
                /\ audit' = log_audit(a1, tid, "Ticket Closed")
           ELSE /\ tickets' = [tickets EXCEPT ![tid].status =
                                                 JiraStatusReading[name].new_local_status]
                /\ audit' = a1
    /\ cfg' = broadcast(cfg, ws)
    /\ UNCHANGED <<now, attempts, reqs, tasks, hist>>

\* perform_close_from_jira on the row webhook_jira read; a is the audit trail so far
perform_close_from_jira(tid, row, user_name, a) ==
    IF row.status = "acknowledged"
    THEN /\ tickets' = tickets
         /\ audit' = a
    ELSE LET diff == now - row.timestamp
         IN  /\ tickets' = [tickets EXCEPT ![tid].status = "acknowledged",
                                           ![tid].ack_user = user_name,
                                           ![tid].ack_ts = now,
                                           ![tid].ack_seconds = diff,
                                           ![tid].sla_status =
                                               SlaStatus(diff, row.sla_seconds)]
             /\ audit' = log_audit(a, tid, "Ticket Closed")

\* webhook_jira for a jira:issue_updated event whose issue key belongs to
\* ticket tid; ws is what the dashboard's send_json does with the
\* 'status_update' messages of perform_close_from_jira and of the handler
webhook_jira(tid, name, user, ws, maxWebhooks) ==
    /\ webhooks < maxWebhooks
    /\ tid \in DOMAIN tickets
    /\ tickets[tid].itsm_ticket_id # NULL
    /\ webhooks' = webhooks + 1
    /\ LET ticket == tickets[tid]
           new_local_status == JiraStatusReading[name].new_local_status
           a1 == log_audit(audit, tid, JiraStatusReading[name].action)
       IN  IF new_local_status = "acknowledged" /\ ticket.status # "acknowledged"
           THEN perform_close_from_jira(tid, ticket, JiraUserName(user), a1)
           ELSE IF new_local_status = "in_progress" /\ ticket.status # "in_progress"
           THEN /\ tickets' = [tickets EXCEPT ![tid].status = "in_progress"]
                /\ audit' = log_audit(a1, tid, "Ticket In Progress")
           ELSE IF new_local_status = "open" /\ ticket.status # "open"
           THEN /\ tickets' = [tickets EXCEPT ![tid].status = "open"]
                /\ audit' = a1
           ELSE /\ tickets' = tickets
                /\ audit' = a1
    /\ cfg' = broadcast(cfg, ws)
    /\ UNCHANGED <<now, attempts, reqs, tasks, hist>>

\* instants at which the clock is read, around the 900 s SLA of a P1 ticket
ClockTimes == {0, 800, 900, 1000}

\* the wall clock advances to a later one of the instants
Elapse(t) ==
    /\ t \in ClockTimes
    /\ t > now
    /\ now' = t
    /\ UNCHANGED <<cfg, tickets, attempts, audit, reqs, tasks, hist, webhooks>>

\* the wall clock advances
Tick(maxTicks) ==
    /\ now < maxTicks * ClockStep
    /\ now' = now + ClockStep
    /\ UNCHANGED <<cfg, tickets, attempts, audit, reqs, tasks, hist, webhooks>>

(***************************************************************************)
(* Spec: alerts on both ingestion paths racing with each other and with    *)
(* the remediation cycles they start, server processes starting on the     *)
(* store, and a dashboard connecting and disconnecting.  The status        *)
(* endpoint answers every attempt within MaxPending polls.                 *)
(***************************************************************************)
Next ==
    \/ \E runid \in RunIds : azure_monitor_check(runid, MaxAlerts)
    \/ \E runid \in RunIds : process_databricks_failure_check(runid, MaxAlerts)
    \/ \E rid \in ReqIds, o, g \in BackendResults, ws \in SendOutcomes :
          azure_monitor_insert(rid, o, g, "ok", ws)
    \/ \E runid \in RunIds, o, g \in BackendResults :
          azure_monitor_upload(runid, o, g, MaxAlerts)
    \/ \E rid \in ReqIds, saved \in BOOLEAN : upload_payload_to_blob(rid, saved)
    \/ \E rid \in ReqIds, ws \in SendOutcomes : azure_monitor_uploaded(rid, "ok", ws)
    \/ \E rid \in ReqIds, j \in BOOLEAN, ws \in SendOutcomes :
          azure_monitor_jira(rid, j, "ok", ws)
    \/ \E rid \in ReqIds : azure_monitor_notify(rid, "ok")
    \/ \E rid \in ReqIds, o, g \in BackendResults, ws \in SendOutcomes :
          process_databricks_failure_insert(rid, o, g, "ok", ws)
    \/ \E rid \in ReqIds, j \in BOOLEAN, ws \in SendOutcomes :
          process_databricks_failure_jira(rid, j, "ok", ws)
    \/ \E rid \in ReqIds : process_databricks_failure_notify(rid, "ok")
    \/ \E k \in ReqIds, r \in PostResults, h \in BOOLEAN, f \in Sinks :
          trigger_auto_remediation(k, r, h, f)
    \/ \E k \in ReqIds, r \in PostResults, h \in BOOLEAN, f \in Sinks :
          trigger_after_backoff(k, r, h, f)
    \/ \E k \in ReqIds : trigger_after_broadcast(k)
    \/ \E k \in ReqIds, token_ok \in BOOLEAN : monitor_start(k, token_ok)
    \/ \E k \in ReqIds, outcome \in PollOutcomes, f \in Sinks :
          monitor_poll(k, outcome, MaxPending, f)
    \/ init_db
    \/ connect
    \/ disconnect

Spec == InitBlob /\ [][Next]_vars

(***************************************************************************)
(* SpecIngest: the two ingestion handlers, in a process with or without    *)
(* the payload upload, starts of server processes on the store, and a      *)
(* dashboard that connects and disconnects; the remediation tasks the      *)
(* handlers create have not been scheduled yet.                            *)
(***************************************************************************)
\* the analysis answers with a finding that is eligible for auto-remediation
\* and carries a priority
IngestResults == {<<f>> : f \in {b \in BackendFindings : b.priority # Absent}}

NextIngest ==
    \/ \E runid \in RunIds : azure_monitor_check(runid, MaxAlerts)
    \/ \E runid \in RunIds : process_databricks_failure_check(runid, MaxAlerts)
    \/ \E rid \in ReqIds, o \in IngestResults, ws \in SendOutcomes :
          azure_monitor_insert(rid, o, <<>>, "ok", ws)
    \/ \E runid \in RunIds, o \in IngestResults :
          azure_monitor_upload(runid, o, <<>>, MaxAlerts)
    \/ \E rid \in ReqIds : upload_payload_to_blob(rid, TRUE)
    \/ \E rid \in ReqIds, ws \in SendOutcomes : azure_monitor_uploaded(rid, "ok", ws)
    \/ \E rid \in ReqIds, ws \in SendOutcomes :
          azure_monitor_jira(rid, TRUE, "ok", ws)
    \/ \E rid \in ReqIds : azure_monitor_notify(rid, "ok")
    \/ \E rid \in ReqIds, o \in IngestResults, ws \in SendOutcomes :
          process_databricks_failure_insert(rid, o, <<>>, "ok", ws)
    \/ \E rid \in ReqIds, ws \in SendOutcomes :
          process_databricks_failure_jira(rid, TRUE, "ok", ws)
    \/ \E rid \in ReqIds : process_databricks_failure_notify(rid, "ok")
    \/ init_db
    \/ connect
    \/ disconnect

SpecIngest == InitBlob /\ [][NextIngest]_vars

(***************************************************************************)
(* SpecMonitor: one alert on /azure-monitor and its remediation cycle,     *)
(* with a status endpoint that may never answer with a terminal status,    *)
(* and one Jira status change that closes, starts or reopens the ticket.   *)
(***************************************************************************)
PollLimit == max_poll_duration \div poll_interval

NextMonitor ==
    \/ \E runid \in NonEmptyRunIds : azure_monitor_check(runid, 1)
    \/ \E rid \in ReqIds, o, g \in BackendResults, ws \in SendOutcomes :
          azure_monitor_insert(rid, o, g, "ok", ws)
    \/ \E rid \in ReqIds, j \in BOOLEAN, ws \in SendOutcomes :
          azure_monitor_jira(rid, j, "ok", ws)
    \/ \E rid \in ReqIds : azure_monitor_notify(rid, "ok")
    \/ \E k \in ReqIds, r \in PostResults, h \in BOOLEAN :
          trigger_auto_remediation(k, r, h, NoSinkFailure)
    \/ \E k \in ReqIds, r \in PostResults, h \in BOOLEAN :
          trigger_after_backoff(k, r, h, NoSinkFailure)
    \/ \E k \in ReqIds : trigger_after_broadcast(k)
    \/ \E k \in ReqIds, token_ok \in BOOLEAN : monitor_start(k, token_ok)
    \/ \E k \in ReqIds, outcome \in PollOutcomes :
          monitor_poll(k, outcome, PollLimit, NoSinkFailure)
    \/ \E k \in ReqIds : monitor_timeout(k)
    \/ \E tid \in ReqIds, name \in LifecycleStatusNames, u \in JiraUsers, ws \in SendOutcomes :
          webhook_jira(tid, name, u, ws, 1)
    \/ connect
    \/ disconnect

SpecMonitor == Init /\ [][NextMonitor]_vars

(***************************************************************************)
(* SpecLifecycle: one alert on /azure-monitor, its remediation cycle, the  *)
(* Jira status changes of its ticket and the wall clock.                   *)
(***************************************************************************)
NextLifecycle ==
    \/ \E runid \in NonEmptyRunIds : azure_monitor_check(runid, 1)
    \/ \E rid \in ReqIds, o, g \in BackendResults, ws \in SendOutcomes :
          azure_monitor_insert(rid, o, g, "ok", ws)
    \/ \E rid \in ReqIds, j \in BOOLEAN, ws \in SendOutcomes :
          azure_monitor_jira(rid, j, "ok", ws)
    \/ \E rid \in ReqIds : azure_monitor_notify(rid, "ok")
    \/ \E k \in ReqIds, r \in PostResults, h \in BOOLEAN :
          trigger_auto_remediation(k, r, h, NoSinkFailure)
    \/ \E k \in ReqIds, r \in PostResults, h \in BOOLEAN :
          trigger_after_backoff(k, r, h, NoSinkFailure)
    \/ \E k \in ReqIds : trigger_after_broadcast(k)
    \/ \E k \in ReqIds, token_ok \in BOOLEAN : monitor_start(k, token_ok)
    \/ \E k \in ReqIds, outcome \in PollOutcomes :
          monitor_poll(k, outcome, MaxPending, NoSinkFailure)
    \/ \E tid \in ReqIds, name \in LifecycleStatusNames, u \in JiraUsers, ws \in SendOutcomes :
          webhook_jira(tid, name, u, ws, MaxWebhooks)
    \/ Tick(MaxTicks)
    \/ connect
    \/ disconnect

SpecLifecycle == Init /\ [][NextLifecycle]_vars

(***************************************************************************)
(* SpecCall: one alert on /azure-monitor for which the analysis backends    *)
(* return nothing, and callers that enter trigger_auto_remediation for its *)
(* ticket with any classification and attempt number.  The playbook        *)
(* answers every accepted trigger with a run handle and the status         *)
(* endpoint every poll with a terminal status.                             *)
(***************************************************************************)
NextCall ==
    \/ \E runid \in RunIds : azure_monitor_check(runid, 1)
    \/ \E rid \in ReqIds, ws \in SendOutcomes :
          azure_monitor_insert(rid, <<>>, <<>>, "ok", ws)
    \/ \E rid \in ReqIds, j \in BOOLEAN, ws \in SendOutcomes :
          azure_monitor_jira(rid, j, "ok", ws)
    \/ \E rid \in ReqIds : azure_monitor_notify(rid, "ok")
    \/ \E tid \in ReqIds, e \in CallErrorTypes, n \in AttemptNumbers :
          invoke_trigger(tid, e, n, MaxCalls)
    \/ \E k \in TaskIds, r \in PostResults :
          trigger_auto_remediation(k, r, TRUE, NoSinkFailure)
    \/ \E k \in TaskIds, r \in PostResults :
          trigger_after_backoff(k, r, TRUE, NoSinkFailure)
    \/ \E k \in TaskIds : trigger_after_broadcast(k)
    \/ \E k \in TaskIds, token_ok \in BOOLEAN : monitor_start(k, token_ok)
    \/ \E k \in TaskIds, outcome \in PollOutcomes :
          monitor_poll(k, outcome, 0, NoSinkFailure)
    \/ connect
    \/ disconnect

SpecCall == Init /\ [][NextCall]_vars

(***************************************************************************)
(* SpecBackoff: SpecCall, and the backoff computation of                   *)
(* trigger_auto_remediation run by itself on delay sequences and attempt   *)
(* numbers, those whose index n - 2 is past the end of the sequence        *)
(* included.  Through the policy table no call gets there: the retry limit *)
(* returns first.                                                          *)
(***************************************************************************)
NextBackoff ==
    \/ NextCall
    \/ \E b \in BackoffSequences, n \in AttemptNumbers : backoff_call(b, n, MaxCalls)

SpecBackoff == Init /\ [][NextBackoff]_vars

(***************************************************************************)
(* SpecSla: one alert on /azure-monitor, closed from Jira or by its        *)
(* remediation cycle at instants around its SLA.                           *)
(***************************************************************************)
NextSla ==
    \/ \E runid \in NonEmptyRunIds : azure_monitor_check(runid, 1)
    \/ \E rid \in ReqIds, o, g \in BackendResults, ws \in SendOutcomes :
          azure_monitor_insert(rid, o, g, "ok", ws)
    \/ \E runid \in NonEmptyRunIds, o, g \in BackendResults :
          azure_monitor_upload(runid, o, g, 1)
    \/ \E rid \in ReqIds, saved \in BOOLEAN : upload_payload_to_blob(rid, saved)
    \/ \E rid \in ReqIds, ws \in SendOutcomes : azure_monitor_uploaded(rid, "ok", ws)
    \/ \E rid \in ReqIds, j \in BOOLEAN, ws \in SendOutcomes :
          azure_monitor_jira(rid, j, "ok", ws)
    \/ \E rid \in ReqIds : azure_monitor_notify(rid, "ok")
    \/ \E k \in ReqIds, r \in PostResults : trigger_auto_remediation(k, r, TRUE, NoSinkFailure)
    \/ \E k \in ReqIds, r \in PostResults : trigger_after_backoff(k, r, TRUE, NoSinkFailure)
    \/ \E k \in ReqIds : trigger_after_broadcast(k)
    \/ \E k \in ReqIds, token_ok \in BOOLEAN : monitor_start(k, token_ok)
    \/ \E k \in ReqIds, outcome \in PollOutcomes : monitor_poll(k, outcome, 0, NoSinkFailure)
    \/ \E tid \in ReqIds, name \in JiraStatusNames, u \in JiraUsers, ws \in SendOutcomes :
          webhook_jira(tid, name, u, ws, 1)
    \/ \E t \in ClockTimes : Elapse(t)
    \/ connect
    \/ disconnect

SpecSla == InitBlob /\ [][NextSla]_vars

(***************************************************************************)
(* SpecRca: one alert on either ingestion path under every provider mode   *)
(* and every outcome of the two analysis backends.                         *)
(***************************************************************************)
NextRca ==
    \/ \E runid \in RunIds : azure_monitor_check(runid, 1)
    \/ \E runid \in RunIds : process_databricks_failure_check(runid, 1)
    \/ \E rid \in ReqIds, o, g \in BackendResults, ws \in SendOutcomes :
          azure_monitor_insert(rid, o, g, "ok", ws)
    \/ \E rid \in ReqIds, j \in BOOLEAN, ws \in SendOutcomes :
          azure_monitor_jira(rid, j, "ok", ws)
    \/ \E rid \in ReqIds : azure_monitor_notify(rid, "ok")
    \/ \E rid \in ReqIds, o, g \in BackendResults, ws \in SendOutcomes :
          process_databricks_failure_insert(rid, o, g, "ok", ws)
    \/ \E rid \in ReqIds, j \in BOOLEAN, ws \in SendOutcomes :
          process_databricks_failure_jira(rid, j, "ok", ws)
    \/ \E rid \in ReqIds : process_databricks_failure_notify(rid, "ok")
    \/ connect
    \/ disconnect

InitRca ==
    /\ cfg \in {[FullConfig EXCEPT !.AI_PROVIDER = p] : p \in Providers}
    /\ now = 0
    /\ tickets = <<>>
    /\ attempts = <<>>
    /\ audit = <<>>
    /\ reqs = <<>>
    /\ tasks = <<>>
    /\ hist = <<>>
    /\ webhooks = 0

SpecRca == InitRca /\ [][NextRca]_vars

(***************************************************************************)
(* SpecLive: one alert on /azure-monitor and its remediation cycle, with   *)
(* ADF monitoring configured or not, any token source and any status       *)
(* endpoint.  The event loop runs every task that is ready: the steps of   *)
(* the cycle are weakly fair.                                              *)
(***************************************************************************)
InitLive ==
    /\ cfg \in {[FullConfig EXCEPT !.adf_monitoring = m] : m \in BOOLEAN}
    /\ now = 0
    /\ tickets = <<>>
    /\ attempts = <<>>
    /\ audit = <<>>
    /\ reqs = <<>>
    /\ tasks = <<>>
    /\ hist = <<>>
    /\ webhooks = 0

\* the steps of the asyncio tasks of the cycles
CycleStep ==
    \/ \E k \in ReqIds, r \in PostResults, h \in BOOLEAN :
          trigger_auto_remediation(k, r, h, NoSinkFailure)
    \/ \E k \in ReqIds, r \in PostResults, h \in BOOLEAN :
          trigger_after_backoff(k, r, h, NoSinkFailure)
    \/ \E k \in ReqIds : trigger_after_broadcast(k)
    \/ \E k \in ReqIds, token_ok \in BOOLEAN : monitor_start(k, token_ok)
    \/ \E k \in ReqIds, outcome \in PollOutcomes :
          monitor_poll(k, outcome, PollLimit, NoSinkFailure)
    \/ \E k \in ReqIds : monitor_timeout(k)

NextLive ==
    \/ \E runid \in NonEmptyRunIds : azure_monitor_check(runid, 1)
    \/ \E rid \in ReqIds, o, g \in BackendResults, ws \in SendOutcomes :
          azure_monitor_insert(rid, o, g, "ok", ws)
    \/ \E rid \in ReqIds, j \in BOOLEAN, ws \in SendOutcomes :
          azure_monitor_jira(rid, j, "ok", ws)
    \/ \E rid \in ReqIds : azure_monitor_notify(rid, "ok")
    \/ CycleStep
    \/ connect
    \/ disconnect

SpecLive == InitLive /\ [][NextLive]_vars /\ WF_vars(CycleStep)

(***************************************************************************)
(* SpecSinks: one alert on /azure-monitor and its remediation cycle, in    *)
(* which a notification sink fails during every step of the cycle, while a *)
(* dashboard connects and disconnects.                                     *)
(***************************************************************************)
FailingSinks == Sinks \ {NoSinkFailure}

NextSinks ==
    \/ \E runid \in RunIds : azure_monitor_check(runid, 1)
    \/ \E rid \in ReqIds, o, g \in BackendResults, ws \in SendOutcomes :
          azure_monitor_insert(rid, o, g, "ok", ws)
    \/ \E rid \in ReqIds, j \in BOOLEAN, ws \in SendOutcomes :
          azure_monitor_jira(rid, j, "ok", ws)
    \/ \E rid \in ReqIds : azure_monitor_notify(rid, "ok")
    \/ \E k \in ReqIds, r \in PostResults, f \in FailingSinks :
          trigger_auto_remediation(k, r, TRUE, f)
    \/ \E k \in ReqIds, r \in PostResults, f \in FailingSinks :
          trigger_after_backoff(k, r, TRUE, f)
    \/ \E k \in ReqIds : trigger_after_broadcast(k)
    \/ \E k \in ReqIds, token_ok \in BOOLEAN : monitor_start(k, token_ok)
    \/ \E k \in ReqIds, outcome \in PollOutcomes, f \in FailingSinks :
          monitor_poll(k, outcome, MaxPending, f)
    \/ connect
    \/ disconnect

SpecSinks == Init /\ [][NextSinks]_vars

(***************************************************************************)
(* SpecRetrigger: one alert on /azure-monitor with its remediation cycle,  *)
(* and a caller that enters trigger_auto_remediation for the same ticket   *)
(* with an attempt number of its own choosing.                             *)
(***************************************************************************)
NextRetrigger ==
    \/ \E runid \in RunIds : azure_monitor_check(runid, 1)
    \/ \E rid \in ReqIds, o \in BackendResults, ws \in SendOutcomes :
          azure_monitor_insert(rid, o, <<>>, "ok", ws)
    \/ \E rid \in ReqIds, j \in BOOLEAN, ws \in SendOutcomes :
          azure_monitor_jira(rid, j, "ok", ws)
    \/ \E rid \in ReqIds : azure_monitor_notify(rid, "ok")
    \/ \E tid \in ReqIds, n \in AttemptNumbers :
          /\ tid \in DOMAIN tickets
          /\ invoke_trigger(tid, tickets[tid].error_type, n, MaxCalls)
    \/ \E k \in TaskIds, r \in PostResults :
          trigger_auto_remediation(k, r, TRUE, NoSinkFailure)
    \/ \E k \in TaskIds, r \in PostResults :
          trigger_after_backoff(k, r, TRUE, NoSinkFailure)
    \/ \E k \in TaskIds : trigger_after_broadcast(k)
    \/ \E k \in TaskIds, token_ok \in BOOLEAN : monitor_start(k, token_ok)
    \/ \E k \in TaskIds, outcome \in PollOutcomes :
          monitor_poll(k, outcome, 0, NoSinkFailure)
    \/ connect
    \/ disconnect

SpecRetrigger == Init /\ [][NextRetrigger]_vars

(***************************************************************************)
(* SpecConcurrent: two alerts on /azure-monitor and the remediation cycles *)
(* they start, as tasks of one event loop.                                 *)
(***************************************************************************)
AlertStep ==
    \/ \E runid \in RunIds : azure_monitor_check(runid, 2)
    \/ \E rid \in ReqIds, o \in BackendResults, ws \in SendOutcomes :
          azure_monitor_insert(rid, o, <<>>, "ok", ws)
    \/ \E rid \in ReqIds, ws \in SendOutcomes :
          azure_monitor_jira(rid, FALSE, "ok", ws)
    \/ \E rid \in ReqIds : azure_monitor_notify(rid, "ok")

CycleStepOf(k) ==
    \/ \E r \in PostResults : trigger_auto_remediation(k, r, TRUE, NoSinkFailure)
    \/ \E r \in PostResults : trigger_after_backoff(k, r, TRUE, NoSinkFailure)
    \/ trigger_after_broadcast(k)
    \/ \E token_ok \in BOOLEAN : monitor_start(k, token_ok)
    \/ \E outcome \in PollOutcomes : monitor_poll(k, outcome, MaxPending, NoSinkFailure)

NextConcurrent ==
    \/ AlertStep
    \/ \E k \in ReqIds : CycleStepOf(k)
    \/ connect
    \/ disconnect

SpecConcurrent == Init /\ [][NextConcurrent]_vars

(***************************************************************************)
(* SpecEventLoop: the alerts and cycles of SpecConcurrent with every wait  *)
(* of a cycle as a state of its task.  In asyncio.sleep (the backoff, the  *)
(* wait between two polls) the task is suspended and the loop runs         *)
(* whatever else is ready.  In time.sleep (between two POSTs of            *)
(* _http_post_with_retries) the task holds the loop: the only step is its  *)
(* own, when the sleep returns.  The process uploads the payloads: the     *)
(* handler of an alert awaits the upload, which a worker thread makes      *)
(* whether the loop is held or not.                                        *)
(***************************************************************************)
\* a process started with AZURE_BLOB_ENABLED and a client of the storage account
InitEventLoop ==
    /\ cfg = [FullConfig EXCEPT !.AZURE_BLOB_ENABLED = TRUE, !.blob_service_client = TRUE]
    /\ now = 0
    /\ tickets = <<>>
    /\ attempts = <<>>
    /\ audit = <<>>
    /\ reqs = <<>>
    /\ tasks = <<>>
    /\ hist = <<>>
    /\ webhooks = 0

\* the steps of azure_monitor the event loop runs
LoopAlertStep ==
    \/ \E runid \in RunIds : azure_monitor_check(runid, 2)
    \/ \E runid \in RunIds, o \in BackendResults : azure_monitor_upload(runid, o, <<>>, 2)
    \/ \E rid \in ReqIds, ws \in SendOutcomes : azure_monitor_uploaded(rid, "ok", ws)
    \/ \E rid \in ReqIds, ws \in SendOutcomes :
          azure_monitor_jira(rid, FALSE, "ok", ws)
    \/ \E rid \in ReqIds : azure_monitor_notify(rid, "ok")
\* a cycle in one of its waits
Waiting(t) ==
    \/ t.pc = "backoff"
    \/ t.pc = "polling" /\ t.elapsed > 0
    \/ t.pc = "time.sleep"

\* the steps of a cycle whose trigger call is answered by its first POST
LoopStepOf(k) ==
    \/ \E r \in FirstPostResults : trigger_auto_remediation(k, r, TRUE, NoSinkFailure)
    \/ \E r \in FirstPostResults : trigger_after_backoff(k, r, TRUE, NoSinkFailure)
    \/ \E o \in FailingTries : trigger_post_failed(k, o)
    \/ trigger_after_broadcast(k)
    \/ \E token_ok \in BOOLEAN : monitor_start(k, token_ok)
    \/ \E outcome \in PollOutcomes : monitor_poll(k, outcome, MaxPending, NoSinkFailure)

NextEventLoop ==
    \/ ~LoopHeld /\ LoopAlertStep
    \/ \E rid \in ReqIds : upload_payload_to_blob(rid, TRUE)
    \/ ~LoopHeld /\ \E k \in ReqIds : LoopStepOf(k)
    \/ ~LoopHeld /\ connect
    \/ ~LoopHeld /\ disconnect
    \/ \E k \in ReqIds, o \in TryOutcomes : post_after_sleep(k, o, TRUE, NoSinkFailure)

SpecEventLoop == InitEventLoop /\ [][NextEventLoop]_vars

(***************************************************************************)
(* SpecPost: calls of _http_post_with_retries against a playbook endpoint  *)
(* that answers, or fails, each POST in any way.                           *)
(***************************************************************************)
NextPost == \E tries \in [1..HttpRetries -> TryOutcomes] : http_post_call(tries, MaxCalls)

SpecPost == Init /\ [][NextPost]_vars

(***************************************************************************)
(* SpecAuth: one alert on /azure-monitor and its remediation cycle, with a *)
(* status endpoint that answers every poll with 401; the token refresh     *)
(* that follows returns a token or None.                                   *)
(***************************************************************************)
AuthFailures == {"401", "401 no token"}

NextAuth ==
    \/ \E runid \in RunIds : azure_monitor_check(runid, 1)
    \/ \E rid \in ReqIds, o, g \in BackendResults, ws \in SendOutcomes :
          azure_monitor_insert(rid, o, g, "ok", ws)
    \/ \E rid \in ReqIds, j \in BOOLEAN, ws \in SendOutcomes :
          azure_monitor_jira(rid, j, "ok", ws)
    \/ \E rid \in ReqIds : azure_monitor_notify(rid, "ok")
    \/ \E k \in ReqIds, r \in PostResults, h \in BOOLEAN :
          trigger_auto_remediation(k, r, h, NoSinkFailure)
    \/ \E k \in ReqIds : trigger_after_broadcast(k)
    \/ \E k \in ReqIds, token_ok \in BOOLEAN : monitor_start(k, token_ok)
    \/ \E k \in ReqIds, outcome \in AuthFailures :
          monitor_poll(k, outcome, PollLimit, NoSinkFailure)
    \/ \E k \in ReqIds : monitor_timeout(k)
    \/ connect
    \/ disconnect

SpecAuth == Init /\ [][NextAuth]_vars

(***************************************************************************)
(* SpecEligibility: two alerts on the ingestion paths with auto-remediation *)
(* switched on or off and findings that are, or are not, auto-healable and *)
(* in the policy table; the cycles of the tickets that get one.            *)
(***************************************************************************)
\* findings of a backend: auto-healable or not, classification in the table or not
EligibilityFindings ==
    BackendFindings \cup
    { [error_type |-> "GatewayTimeout", severity |-> "High", priority |-> Absent,
       confidence |-> "High", auto_heal_possible |-> FALSE],
      [error_type |-> "SchemaMismatch", severity |-> "High", priority |-> Absent,
       confidence |-> "High", auto_heal_possible |-> TRUE] }

EligibilityResults == {<<>>} \cup {<<f>> : f \in EligibilityFindings}

InitEligibility ==
    /\ cfg \in {[FullConfig EXCEPT !.AUTO_REMEDIATION_ENABLED = b] : b \in BOOLEAN}
    /\ now = 0
    /\ tickets = <<>>
    /\ attempts = <<>>
    /\ audit = <<>>
    /\ reqs = <<>>
    /\ tasks = <<>>
    /\ hist = <<>>
    /\ webhooks = 0

NextEligibility ==
    \/ \E runid \in RunIds : azure_monitor_check(runid, 2)
    \/ \E runid \in RunIds : process_databricks_failure_check(runid, 2)
    \/ \E rid \in ReqIds, o \in EligibilityResults, ws \in SendOutcomes :
          azure_monitor_insert(rid, o, <<>>, "ok", ws)
    \/ \E rid \in ReqIds, ws \in SendOutcomes :
          azure_monitor_jira(rid, FALSE, "ok", ws)
    \/ \E rid \in ReqIds : azure_monitor_notify(rid, "ok")
    \/ \E rid \in ReqIds, o \in EligibilityResults, ws \in SendOutcomes :
          process_databricks_failure_insert(rid, o, <<>>, "ok", ws)
    \/ \E rid \in ReqIds, ws \in SendOutcomes :
          process_databricks_failure_jira(rid, FALSE, "ok", ws)
    \/ \E rid \in ReqIds : process_databricks_failure_notify(rid, "ok")
    \/ \E k \in ReqIds, r \in PostResults :
          trigger_auto_remediation(k, r, TRUE, NoSinkFailure)
    \/ \E k \in ReqIds, r \in PostResults :
          trigger_after_backoff(k, r, TRUE, NoSinkFailure)
    \/ \E k \in ReqIds : trigger_after_broadcast(k)
    \/ \E k \in ReqIds, token_ok \in BOOLEAN : monitor_start(k, token_ok)
    \/ \E k \in ReqIds, outcome \in PollOutcomes :
          monitor_poll(k, outcome, 0, NoSinkFailure)
    \/ connect
    \/ disconnect

SpecEligibility == InitEligibility /\ [][NextEligibility]_vars

(***************************************************************************)
(* SpecNullMessage: one alert on /azure-monitor and its remediation cycle, *)
(* with a status endpoint whose answer for a failed run carries a message  *)
(* or null.  The steps of the cycle are weakly fair.                       *)
(***************************************************************************)
FailureMessages == {NoSinkFailure, NullFailureMessage}

CycleStepNullMessage ==
    \/ \E k \in ReqIds, r \in PostResults :
          trigger_auto_remediation(k, r, TRUE, NoSinkFailure)
    \/ \E k \in ReqIds, r \in PostResults :
          trigger_after_backoff(k, r, TRUE, NoSinkFailure)
    \/ \E k \in ReqIds : trigger_after_broadcast(k)
    \/ \E k \in ReqIds, token_ok \in BOOLEAN : monitor_start(k, token_ok)
    \/ \E k \in ReqIds, outcome \in PollOutcomes, f \in FailureMessages :
          monitor_poll(k, outcome, PollLimit, f)
    \/ \E k \in ReqIds : monitor_timeout(k)

NextNullMessage ==
    \/ \E runid \in NonEmptyRunIds : azure_monitor_check(runid, 1)
    \/ \E rid \in ReqIds, o \in BackendResults, ws \in SendOutcomes :
          azure_monitor_insert(rid, o, <<>>, "ok", ws)
    \/ \E rid \in ReqIds, j \in BOOLEAN, ws \in SendOutcomes :
          azure_monitor_jira(rid, j, "ok", ws)
    \/ \E rid \in ReqIds : azure_monitor_notify(rid, "ok")
    \/ CycleStepNullMessage
    \/ connect
    \/ disconnect

SpecNullMessage == Init /\ [][NextNullMessage]_vars /\ WF_vars(CycleStepNullMessage)

(***************************************************************************)
(* SpecTrigger: one alert on /azure-monitor and its remediation cycle in a *)
(* process that has all, some or none of the playbook URLs configured,     *)
(* while a dashboard connects and disconnects and takes, or fails to take, *)
(* the messages sent to it.                                                *)
(***************************************************************************)
\* a step's send to the dashboard succeeds or raises
DashboardSends == {NoSinkFailure, "websocket", "websocket closed"}

PlaybookConfigs == {PlaybookEnvs, {"PLAYBOOK_RETRY_PIPELINE"}, {}}

InitTrigger ==
    /\ cfg \in {[FullConfig EXCEPT !.playbooks = p] : p \in PlaybookConfigs}
    /\ now = 0
    /\ tickets = <<>>
    /\ attempts = <<>>
    /\ audit = <<>>
    /\ reqs = <<>>
    /\ tasks = <<>>
    /\ hist = <<>>
    /\ webhooks = 0

NextTrigger ==
    \/ \E runid \in RunIds : azure_monitor_check(runid, 1)
    \/ \E rid \in ReqIds, o \in BackendResults, ws \in SendOutcomes :
          azure_monitor_insert(rid, o, <<>>, "ok", ws)
    \/ \E rid \in ReqIds, j \in BOOLEAN, ws \in SendOutcomes :
          azure_monitor_jira(rid, j, "ok", ws)
    \/ \E rid \in ReqIds : azure_monitor_notify(rid, "ok")
    \/ \E k \in ReqIds, r \in PostResults, h \in BOOLEAN, f \in DashboardSends :
          trigger_auto_remediation(k, r, h, f)
    \/ \E k \in ReqIds, r \in PostResults, h \in BOOLEAN, f \in DashboardSends :
          trigger_after_backoff(k, r, h, f)
    \/ \E k \in ReqIds : trigger_after_broadcast(k)
    \/ \E k \in ReqIds, token_ok \in BOOLEAN : monitor_start(k, token_ok)
    \/ \E k \in ReqIds, outcome \in PollOutcomes, f \in DashboardSends :
          monitor_poll(k, outcome, MaxPending, f)
    \/ connect
    \/ disconnect

SpecTrigger == InitTrigger /\ [][NextTrigger]_vars

(***************************************************************************)
(* Properties.                                                             *)
(***************************************************************************)
\* the response statuses that report a new incident
Created == {"success", "ticket_created"}

\* the rows of the remediation_attempts table that belong to a ticket
AttemptsOf(att, tid) == {i \in DOMAIN att : att[i].ticket_id = tid}
AttemptN(att, tid, n) == {i \in AttemptsOf(att, tid) : att[i].attempt_number = n}

IsPrefix(s, t) == Len(s) <= Len(t) /\ \A i \in 1..Len(s) : s[i] = t[i]

\* the external interactions of a cycle whose every attempt is triggered and
\* fails: POST 1, then for n = 2..max_retries the n-th backoff and POST n
Ladder(error_type) ==
    LET p == REMEDIABLE_ERRORS[error_type]
    IN  [i \in 1..(2 * p.max_retries - 1) |->
            IF i % 2 = 1
            THEN Event("post", (i + 1) \div 2, 0)
            ELSE Event("sleep", i \div 2 + 1, p.backoff_seconds[i \div 2])]

\* C1: in every reachable state each non-empty run identifier has at most one
\* tickets row, and at most one of the alerts that carried it was answered as
\* having created an incident, however the checks and INSERTs of the two
\* ingestion paths interleave.
C1_OneIncidentPerRunId ==
    \A r \in NonEmptyRunIds :
        /\ Cardinality({id \in DOMAIN tickets : tickets[id].run_id = r}) <= 1
        /\ Cardinality({rid \in DOMAIN reqs :
                           reqs[rid].runid = r /\ reqs[rid].status \in Created}) <= 1

\* two alerts with one run identifier both passed the duplicate check; one created
\* the incident and the other's INSERT hit the unique index
C1_Witness ==
    \E a, b \in DOMAIN reqs :
        /\ a # b
        /\ reqs[a].runid \in NonEmptyRunIds
        /\ reqs[b].runid = reqs[a].runid
        /\ reqs[a].status \in Created
        /\ reqs[b].status \in {"duplicate_race_condition", "error_500"}

\* C2: an alert with a non-empty run identifier that has been answered was
\* answered with a normal response naming the one incident of its run
\* identifier - as created, or as already existing - on either ingestion path;
\* the loser of a race is never answered with an error.
C2_LoserReportsWinner ==
    \A rid \in DOMAIN reqs :
        (reqs[rid].runid \in NonEmptyRunIds /\ reqs[rid].pc = "done")
            => /\ reqs[rid].status \in
                      Created \cup {"duplicate_ignored", "duplicate_race_condition"}
               /\ reqs[rid].ticket_id \in TicketsWithRunId(tickets, reqs[rid].runid)

\* C3: an alert whose run identifier is absent, empty or the sentinel "N/A"
\* and that has been answered created its own incident, on either ingestion
\* path; it was neither rejected nor answered as a duplicate.
C3_NoRunIdExempt ==
    \A rid \in DOMAIN reqs :
        (reqs[rid].runid \notin NonEmptyRunIds /\ reqs[rid].pc = "done")
            => /\ reqs[rid].status \in Created
               /\ reqs[rid].ticket_id = rid
               /\ rid \in DOMAIN tickets

\* C4: a step that takes in an alert whose non-empty run identifier already has
\* an incident answers it at once with that incident's id as a duplicate,
\* inserts no ticket, changes no ticket row, adds no attempt row and starts no
\* remediation cycle.
C4_DuplicateResolvesToExisting ==
    [][\A r \in NonEmptyRunIds :
          (/\ TicketsWithRunId(tickets, r) # {}
           /\ Len(reqs') = Len(reqs) + 1
           /\ reqs'[Len(reqs')].runid = r)
             => /\ reqs'[Len(reqs')].pc = "done"
                /\ reqs'[Len(reqs')].status = "duplicate_ignored"
                /\ reqs'[Len(reqs')].ticket_id \in TicketsWithRunId(tickets, r)
                /\ tickets' = tickets
                /\ attempts' = attempts
                /\ tasks' = tasks
                /\ hist' = hist]_vars

\* a second alert for the run of an incident that has a remediation cycle was
\* answered as a duplicate
C4_Witness ==
    \E a, b \in DOMAIN reqs :
        /\ a < b
        /\ reqs[a].runid \in NonEmptyRunIds
        /\ reqs[b].runid = reqs[a].runid
        /\ reqs[a].status \in Created
        /\ a \in DOMAIN tasks
        /\ reqs[b].status = "duplicate_ignored"
        /\ reqs[b].ticket_id = a

\* C5: a step of trigger_auto_remediation entered with a classification that
\* is not in REMEDIABLE_ERRORS, whatever the attempt number, returns the result
\* "Error type not remediable", performs no POST and no sleep, and leaves the
\* tickets and the remediation_attempts tables as they were.
C5_NotRemediableIsNoOp ==
    [][\A k \in DOMAIN tasks :
          (/\ tasks[k].pc = "start"
           /\ tasks[k].error_type \notin DOMAIN REMEDIABLE_ERRORS
           /\ tasks'[k] # tasks[k])
             => /\ tasks'[k].pc = "done"
                /\ tasks'[k].result = "Error type not remediable"
                /\ hist'[k] = hist[k]
                /\ hist[k] = <<>>
                /\ tickets' = tickets
                /\ attempts' = attempts]_vars

\* trigger_auto_remediation has returned from a call with a classification
\* outside the table and an attempt number above 1
C5_Witness ==
    \E k \in DOMAIN tasks :
        /\ tasks[k].error_type \notin DOMAIN REMEDIABLE_ERRORS
        /\ tasks[k].attempt > 1
        /\ tasks[k].tid \in DOMAIN tickets
        /\ tasks[k].pc = "done"

\* a cycle never goes past its policy's max_retries, its external interactions
\* follow the ladder, and once it has escalated it has walked the whole ladder
C6_Ladder ==
    \A k \in DOMAIN tasks :
        LET t == tasks[k]
            m == REMEDIABLE_ERRORS[t.error_type].max_retries
            rows == AttemptsOf(attempts, t.tid)
        IN  /\ t.attempt <= m
            /\ IsPrefix(hist[k], Ladder(t.error_type))
            /\ t.result = "escalated"
                 => /\ t.pc = "done"
                    /\ hist[k] = Ladder(t.error_type)
                    /\ Cardinality(rows) = m
                    /\ \A n \in 1..m : Cardinality(AttemptN(attempts, t.tid, n)) = 1
                    /\ \A i, j \in rows :
                          i < j => attempts[i].attempt_number < attempts[j].attempt_number
                    /\ \A i \in rows : attempts[i].status = "failed"
                    /\ tickets[t.tid].remediation_status = "max_retries_exceeded"

\* the step in which the monitor observes attempt n Failed or Cancelled: below
\* max_retries the cycle goes on to attempt n + 1 and the ticket is untouched,
\* at max_retries the ticket is escalated
C6_FailureStep ==
    \A k \in DOMAIN tasks :
        (/\ tasks[k].pc = "polling"
         /\ tasks'[k].pc # "polling"
         /\ tasks'[k].result \notin {"succeeded", "timeout"})
           => LET t == tasks[k]
                  m == REMEDIABLE_ERRORS[t.error_type].max_retries
              IN  IF t.attempt < m
                  THEN /\ tasks'[k].pc = "start"
                       /\ tasks'[k].attempt = t.attempt + 1
                       /\ tickets' = tickets
                  ELSE /\ tasks'[k].pc = "done"
                       /\ tasks'[k].result = "escalated"
                       /\ tickets'[t.tid].remediation_status = "max_retries_exceeded"
                       /\ tickets'[t.tid].status = "open"

\* C6: in a cycle with max_retries = m whose every attempt is triggered and
\* observed Failed or Cancelled, attempts 1..m are triggered in order, each
\* attempt n >= 2 after a sleep of backoff_seconds[n-2] and attempt 1 after
\* none; the failure of attempt m escalates the ticket to remediation status
\* 'max_retries_exceeded' and status 'open', and no attempt m + 1 is started.
C6_RetryLadderThenEscalation == [][C6_FailureStep /\ C6_Ladder']_vars

\* a GatewayTimeout ticket (max_retries 3) escalated after POST 1, a 30 s sleep,
\* POST 2, a 60 s sleep and POST 3
C6_Witness ==
    \E k \in DOMAIN tasks :
        /\ tasks[k].error_type = "GatewayTimeout"
        /\ tasks[k].result = "escalated"
        /\ hist[k] = <<Event("post", 1, 0), Event("sleep", 2, 30), Event("post", 2, 0),
                       Event("sleep", 3, 60), Event("post", 3, 0)>>
        /\ tickets[tasks[k].tid].status = "open"

\* the step in which the monitor observes attempt k Succeeded
C7_SuccessStep ==
    \A c \in DOMAIN tasks :
        (tasks[c].pc = "polling" /\ tasks'[c].result = "succeeded")
           => LET t == tasks[c]
              IN  /\ tasks'[c].pc = "done"
                  /\ tasks'[c].attempt = t.attempt
                  /\ Len(attempts') = Len(attempts)
                  /\ AttemptN(attempts', t.tid, t.attempt) # {}
                  /\ \A i \in AttemptN(attempts', t.tid, t.attempt) :
                        attempts'[i].status = "succeeded"
                  /\ tickets'[t.tid].status = "acknowledged"
                  /\ tickets'[t.tid].ack_user = "AI_AUTO_HEAL"
                  /\ tickets'[t.tid].ack_ts = now
                  /\ tickets'[t.tid].remediation_status = "succeeded"
                  /\ tickets'[t.tid].remediation_attempts = t.attempt

\* a cycle that has seen success is over: it takes no further step, and its
\* ticket has no attempt beyond the one that succeeded
C7_CycleOver ==
    \A c \in DOMAIN tasks :
        tasks[c].result = "succeeded"
           => /\ tasks'[c] = tasks[c]
              /\ hist'[c] = hist[c]
              /\ \A i \in 1..Len(hist[c]) : hist[c][i].n <= tasks[c].attempt
              /\ \A i \in AttemptsOf(attempts', tasks[c].tid) :
                    attempts'[i].attempt_number <= tasks[c].attempt
              /\ tickets'[tasks[c].tid].remediation_status = "succeeded"
              /\ tickets'[tasks[c].tid].remediation_attempts = tasks[c].attempt

\* C7: when the monitor observes attempt k Succeeded, the attempt row is marked
\* 'succeeded' and the ticket becomes 'acknowledged' by AI_AUTO_HEAL with
\* remediation status 'succeeded' and attempt count k; afterwards the cycle
\* takes no step, so no attempt k + 1 is triggered.
C7_SuccessClosesIncident == [][C7_SuccessStep /\ C7_CycleOver]_vars

\* attempt 1 failed, attempt 2 was triggered after the 30 s backoff and succeeded
C7_Witness ==
    \E c \in DOMAIN tasks :
        /\ tasks[c].result = "succeeded"
        /\ tasks[c].attempt = 2
        /\ hist[c] = <<Event("post", 1, 0), Event("sleep", 2, 30), Event("post", 2, 0)>>
        /\ tickets[tasks[c].tid].remediation_attempts = 2
        /\ tickets[tasks[c].tid].status = "acknowledged"

\* the step a monitor takes once its polls have used up max_poll_duration
C8_TimeoutStep ==
    \A k \in DOMAIN tasks :
        /\ (tasks[k].pc = "polling" /\ tasks'[k].result = "timeout")
              => tasks[k].elapsed = PollLimit * poll_interval
        /\ (/\ tasks[k].pc = "polling"
            /\ tasks[k].elapsed >= max_poll_duration
            /\ tasks'[k] # tasks[k])
              => LET t == tasks[k]
                 IN  /\ tasks'[k].pc = "done"
                     /\ tasks'[k].result = "timeout"
                     /\ tasks'[k].attempt = t.attempt
                     /\ hist' = hist
                     /\ Len(attempts') = Len(attempts)
                     /\ AttemptN(attempts', t.tid, t.attempt) # {}
                     /\ \A i \in AttemptN(attempts', t.tid, t.attempt) :
                           attempts'[i].status = "timeout"
                     /\ tickets'[t.tid].remediation_status # "max_retries_exceeded"

\* a cycle that has timed out is over: no further step, no further attempt, no
\* escalation
C8_CycleOver ==
    \A k \in DOMAIN tasks :
        tasks[k].result = "timeout"
           => /\ tasks'[k] = tasks[k]
              /\ hist'[k] = hist[k]
              /\ \A i \in 1..Len(hist[k]) : hist[k][i].n <= tasks[k].attempt
              /\ \A i \in AttemptsOf(attempts', tasks[k].tid) :
                    attempts'[i].attempt_number <= tasks[k].attempt
              /\ tickets'[tasks[k].tid].remediation_status = "in_progress"

\* C8: a monitor whose 120 polls (3600 s at 30 s intervals) saw no terminal
\* status marks its attempt 'timeout'; the cycle then takes no further step:
\* no attempt n + 1 is triggered and the ticket is not escalated, whatever
\* retries the policy still allows.
C8_TimeoutEndsCycle == [][C8_TimeoutStep /\ C8_CycleOver]_vars

\* the first attempt of a cycle timed out although its policy allows a retry
C8_Witness ==
    \E k \in DOMAIN tasks :
        /\ tasks[k].result = "timeout"
        /\ tasks[k].pc = "done"
        /\ tasks[k].attempt = 1
        /\ RetryAvailable(tasks[k].error_type, tasks[k].attempt)

\* C9: the step of handle_remediation_timeout changes, besides adding one
\* audit row, only the status and failure reason of the attempt that timed
\* out: every other attempt row and the whole ticket row (status, remediation
\* status still 'in_progress', attempt count, acknowledgment and SLA fields)
\* stay as they were.
C9_TimeoutChangesOnlyItsAttempt ==
    [][\A k \in DOMAIN tasks :
          (tasks[k].pc = "polling" /\ tasks'[k].result = "timeout")
             => LET t == tasks[k]
                IN  /\ tickets' = tickets
                    /\ tickets[t.tid].remediation_status = "in_progress"
                    /\ audit' = log_audit(audit, t.tid, "auto_remediation_monitoring_timeout")
                    /\ Len(attempts') = Len(attempts)
                    /\ \A i \in DOMAIN attempts :
                          IF i \in AttemptN(attempts, t.tid, t.attempt)
                          THEN attempts'[i] =
                                  [attempts[i] EXCEPT
                                      !.status = "timeout",
                                      !.failure_reason = "Monitoring timeout reached (1 hour)"]
                          ELSE attempts'[i] = attempts[i]]_vars

\* C10: a Jira 'Done' status change delivered for a ticket that is already
\* 'acknowledged' adds no 'Ticket Closed' audit row and leaves the ticket's
\* status, ack_user, ack_ts, ack_seconds and sla_status as the first
\* acknowledgment set them.
C10_CloseIsIdempotent ==
    [][\A tid \in DOMAIN tickets :
          (/\ tickets[tid].status = "acknowledged"
           /\ webhooks' = webhooks + 1
           /\ AuditCount(audit', tid, "Jira: Done") = AuditCount(audit, tid, "Jira: Done") + 1)
             => /\ AuditCount(audit', tid, "Ticket Closed")
                      = AuditCount(audit, tid, "Ticket Closed")
                /\ tickets'[tid].status = "acknowledged"
                /\ tickets'[tid].ack_user = tickets[tid].ack_user
                /\ tickets'[tid].ack_ts = tickets[tid].ack_ts
                /\ tickets'[tid].ack_seconds = tickets[tid].ack_seconds
                /\ tickets'[tid].sla_status = tickets[tid].sla_status]_vars

\* a ticket closed from Jira received a second 'Done' after the clock had moved on
C10_Witness ==
    \E tid \in DOMAIN tickets :
        /\ AuditCount(audit, tid, "Jira: Done") = 2
        /\ AuditCount(audit, tid, "Ticket Closed") = 1
        /\ tickets[tid].status = "acknowledged"
        /\ tickets[tid].ack_user = "Jira User"
        /\ tickets[tid].ack_ts < now

\* C11: every ticket that has been closed, from Jira or by the orchestrator,
\* records as ack_seconds the seconds from its creation to its acknowledgment
\* and as sla_status 'Met' exactly when those seconds are at most its stored
\* sla_seconds, 'Breached' otherwise (sla 900: 800 Met, 900 Met, 1000 Breached).
C11_SlaOutcome ==
    \A tid \in DOMAIN tickets :
        LET row == tickets[tid]
        IN  row.ack_ts # NULLINT
              => /\ row.ack_user \in {JiraUserName(u) : u \in JiraUsers} \cup {"AI_AUTO_HEAL"}
                 /\ row.ack_seconds = row.ack_ts - row.timestamp
                 /\ row.sla_status \in {"Met", "Breached"}
                 /\ row.sla_status = "Met" <=> row.ack_seconds <= row.sla_seconds
                 /\ (row.sla_seconds = 900 /\ row.ack_seconds \in {800, 900})
                       => row.sla_status = "Met"
                 /\ (row.sla_seconds = 900 /\ row.ack_seconds = 1000)
                       => row.sla_status = "Breached"

\* a ticket with an SLA of 900 s was closed by the orchestrator exactly 900 s
\* after its creation
C11_Witness ==
    \E tid \in DOMAIN tickets :
        /\ tickets[tid].sla_seconds = 900
        /\ tickets[tid].ack_user = "AI_AUTO_HEAL"
        /\ tickets[tid].ack_seconds = 900
        /\ tickets[tid].sla_status = "Met"

\* C12: in every reachable state the attempt rows of each ticket carry the
\* numbers 1..k, each exactly once, where k is the number of its rows, and at
\* most one of them has status 'in_progress'.
C12_AttemptsContiguous ==
    \A tid \in DOMAIN tickets :
        LET rows == AttemptsOf(attempts, tid)
        IN  /\ \A i \in rows : attempts[i].attempt_number \in 1..Cardinality(rows)
            /\ \A n \in 1..Cardinality(rows) : Cardinality(AttemptN(attempts, tid, n)) = 1
            /\ Cardinality({i \in rows : attempts[i].status = "in_progress"}) <= 1

\* a ticket whose attempts 1 and 2 failed has its attempt 3 in progress
C12_Witness ==
    \E tid \in DOMAIN tickets :
        /\ Cardinality(AttemptsOf(attempts, tid)) = 3
        /\ \A i \in AttemptN(attempts, tid, 1) \cup AttemptN(attempts, tid, 2) :
              attempts[i].status = "failed"
        /\ \A i \in AttemptN(attempts, tid, 3) : attempts[i].status = "in_progress"


\* a request whose handler has called generate_rca_and_recs
Analysed(r) == r.pc = "done" /\ r.status # "duplicate_ignored"

\* C13: under every provider mode and every combination of backend outcomes,
\* a handler that has run the analysis holds a finding, never "no result";
\* when every backend it consulted returned no result, that finding is the
\* static fallback: UnknownError, confidence Low, auto-heal not possible.
C13_AlwaysAFinding ==
    \A rid \in DOMAIN reqs :
        LET r == reqs[rid]
        IN  Analysed(r)
              => /\ Len(r.rca) = 1
                 /\ Len(r.backends) >= 1
                 /\ (\A i \in DOMAIN r.backends : r.backends[i].result = <<>>)
                       => /\ r.rca[1] = fallback_rca
                          /\ r.rca[1].error_type = "UnknownError"
                          /\ r.rca[1].confidence = "Low"
                          /\ r.rca[1].auto_heal_possible = FALSE

C13_Witness ==
    /\ cfg.AI_PROVIDER = "openai"
    /\ \E rid \in DOMAIN reqs :
          /\ Analysed(reqs[rid])
          /\ reqs[rid].backends = <<Consulted("gemini", <<>>)>>
          /\ reqs[rid].rca = <<fallback_rca>>
          /\ rid \in DOMAIN tickets
          /\ tickets[rid].error_type = "UnknownError"


\* the finding f as generate_rca_and_recs hands it on: unchanged but for a
\* priority filled in when the backend gave none
Returned(f, rca) ==
    /\ rca.error_type = f.error_type
    /\ rca.severity = f.severity
    /\ rca.confidence = f.confidence
    /\ rca.auto_heal_possible = f.auto_heal_possible
    /\ f.priority # Absent => rca.priority = f.priority

\* C14: in auto mode Ollama is consulted first and Gemini only when Ollama
\* returned no result, the static fallback only when both returned none, and
\* the first finding obtained is the one returned; in a single-backend mode
\* the other backend is never consulted.
C14_ConsultationOrder ==
    \A rid \in DOMAIN reqs :
        LET r == reqs[rid]
            b == r.backends
        IN  Analysed(r)
              => /\ cfg.AI_PROVIDER = "auto"
                       => /\ b[1].backend = "ollama"
                          /\ Len(b) = 2 <=> b[1].result = <<>>
                          /\ Len(b) = 2 => b[2].backend = "gemini"
                          /\ Len(b) <= 2
                 /\ cfg.AI_PROVIDER = "ollama"
                       => Len(b) = 1 /\ b[1].backend = "ollama"
                 /\ cfg.AI_PROVIDER = "gemini"
                       => Len(b) = 1 /\ b[1].backend = "gemini"
                 /\ \A i \in DOMAIN b :
                       (b[i].result # <<>> /\ \A j \in 1..(i - 1) : b[j].result = <<>>)
                          => Returned(b[i].result[1], r.rca[1])
                 /\ r.rca[1] = fallback_rca
                       => \A i \in DOMAIN b : b[i].result = <<>>

C14_Witness ==
    /\ cfg.AI_PROVIDER = "auto"
    /\ \E rid \in DOMAIN reqs :
          /\ Analysed(reqs[rid])
          /\ Len(reqs[rid].backends) = 2
          /\ reqs[rid].backends[1] = Consulted("ollama", <<>>)
          /\ reqs[rid].backends[2].backend = "gemini"
          /\ reqs[rid].backends[2].result # <<>>
          /\ reqs[rid].rca[1].error_type = "DatabricksClusterStartFailure"


\* the backend finding behind the analysis of request r, <<>> when there is none
FindingObtained(r) ==
    LET hits == {i \in DOMAIN r.backends : r.backends[i].result # <<>>}
    IN  IF hits = {} THEN <<>>
        ELSE r.backends[CHOOSE i \in hits : \A j \in hits : i <= j].result

\* C15: on either ingestion path the priority of a created ticket is the
\* priority the backend supplied, and is derived from the severity only when
\* the backend gave none.
C15_BackendPriorityKept ==
    \A rid \in DOMAIN tickets :
        LET f == FindingObtained(reqs[rid])
        IN  IF f # <<>> /\ f[1].priority # Absent
            THEN tickets[rid].priority = f[1].priority
            ELSE tickets[rid].priority = derive_priority(tickets[rid].severity)


\* C16: 'acknowledged' is terminal: no step, be it a Jira webhook, a
\* remediation failure or an escalation, changes the status of a ticket that
\* is 'acknowledged'.
C16_AcknowledgedIsTerminal ==
    [][\A tid \in DOMAIN tickets :
          tickets[tid].status = "acknowledged" => tickets'[tid].status = "acknowledged"]_vars


\* a ticket closed by a person
ManuallyAcknowledged(row) == row.status = "acknowledged" /\ row.ack_user # "AI_AUTO_HEAL"

\* C17: once a ticket has been acknowledged by a person while its cycle is in
\* flight, no later step of the cycle overwrites it: whether the monitor sees
\* success, failure or the retry ceiling, the status stays 'acknowledged' and
\* ack_user, ack_ts, ack_seconds and sla_status keep the manual values.
C17_ManualAckKept ==
    [][webhooks' = webhooks
         => \A tid \in DOMAIN tickets :
               ManuallyAcknowledged(tickets[tid])
                 => /\ tickets'[tid].status = "acknowledged"
                    /\ tickets'[tid].ack_user = tickets[tid].ack_user
                    /\ tickets'[tid].ack_ts = tickets[tid].ack_ts
                    /\ tickets'[tid].ack_seconds = tickets[tid].ack_seconds
                    /\ tickets'[tid].sla_status = tickets[tid].sla_status]_vars


\* C18: once a ticket has been acknowledged by a person, its cycle stops at
\* the next decision point: a monitor that then observes the attempt Failed
\* or Cancelled does not enter the trigger for another attempt, even with
\* retries remaining.
C18_AckAbortsCycle ==
    [][\A k \in DOMAIN tasks :
          (tasks[k].pc = "polling" /\ ManuallyAcknowledged(tickets[tasks[k].tid]))
             => /\ tasks'[k].pc # "start"
                /\ tasks'[k].attempt = tasks[k].attempt]_vars


\* C19: under fair scheduling every attempt row that is 'in_progress'
\* eventually reaches 'succeeded', 'failed' or 'timeout', whatever the status
\* endpoint, the token source and the monitoring configuration do.
C19_AttemptsTerminate ==
    \A i \in AttemptNumbers :
        (i \in DOMAIN attempts /\ attempts[i].status = "in_progress")
           ~> (i \in DOMAIN attempts
                 /\ attempts[i].status \in {"succeeded", "failed", "timeout"})


\* a task whose call of the playbook raised or ended on a non-success response
TriggerFailed(t) ==
    /\ t.pc = "done"
    /\ t.result \in {TriggerFailureMessage(r) : r \in PostResults}

\* C20: a trigger call that fails for attempt n is followed by a retry or by
\* the escalation of the ticket (remediation status 'max_retries_exceeded',
\* status 'open'); the ticket is never left with remediation status
\* 'in_progress' while no attempt is in progress and no step is pending.
C20_TriggerFailureResolves ==
    \A k \in DOMAIN tasks :
        TriggerFailed(tasks[k])
          => LET row == tickets[tasks[k].tid]
             IN  /\ row.remediation_status = "max_retries_exceeded"
                 /\ row.status = "open"
                 /\ row.remediation_status = "in_progress"
                       => \E i \in AttemptsOf(attempts, tasks[k].tid) :
                             attempts[i].status = "in_progress"


\* C21: the step that escalates a ticket sets its remediation status to
\* 'max_retries_exceeded' and its status to 'open' whatever the status was,
\* and adds no attempt row and changes none beyond the failure handler's mark
\* of the attempt just observed; a cycle that ends by exhausting its retries
\* ends in that state.
C21_EscalationStep ==
    \A k \in DOMAIN tasks :
        (tasks[k].result # "escalated" /\ tasks'[k].result = "escalated")
          => LET t == tasks[k]
             IN  /\ tasks'[k].pc = "done"
                 /\ tickets'[t.tid].remediation_status = "max_retries_exceeded"
                 /\ tickets'[t.tid].status = "open"
                 /\ tickets' = [tickets EXCEPT
                                   ![t.tid].remediation_status = "max_retries_exceeded",
                                   ![t.tid].status = "open"]
                 /\ Len(attempts') = Len(attempts)
                 /\ attempts' = MarkAttempts(attempts, t.tid, t.run, "failed",
                                             "Unknown failure")

C21_EscalationForcesOpen == [][C21_EscalationStep]_vars

C21_Witness ==
    \E k \in DOMAIN tasks :
        /\ tasks[k].result = "escalated"
        /\ tickets[tasks[k].tid].status = "open"
        /\ tickets[tasks[k].tid].remediation_status = "max_retries_exceeded"
        /\ webhooks = 1
        /\ AuditCount(audit, tasks[k].tid, "Ticket In Progress") = 1
        /\ AuditCount(audit, tasks[k].tid, "auto_remediation_max_retries_exceeded") = 1


\* the steps of a cycle during which every sink call succeeds
AllSinksSucceed ==
    \/ \E k \in ReqIds, r \in PostResults :
          trigger_auto_remediation(k, r, TRUE, NoSinkFailure)
    \/ \E k \in ReqIds, r \in PostResults :
          trigger_after_backoff(k, r, TRUE, NoSinkFailure)
    \/ \E k \in ReqIds : trigger_after_broadcast(k)
    \/ \E k \in ReqIds, token_ok \in BOOLEAN : monitor_start(k, token_ok)
    \/ \E k \in ReqIds, outcome \in PollOutcomes :
          monitor_poll(k, outcome, MaxPending, NoSinkFailure)

\* a task once the 'remediation_started' broadcast it may be suspended in has
\* returned
BroadcastReturned(t) ==
    IF t.pc = "trigger_broadcast"
    THEN [t EXCEPT !.pc = "monitor_start", !.elapsed = 0, !.result = "success",
                   !.effects = TriggerEffects]
    ELSE t

\* a step of a cycle in which a sink fails: the tickets, the attempt rows, the
\* audit trail and the task after it (a send to the dashboard that raises
\* does not suspend the step, one that succeeds does) are those of the same
\* step with every sink succeeding, and the next step of the cycle is the one
\* that follows a trigger (the monitor) or a failure (the next attempt)
C22_SinkStep ==
    \A k \in DOMAIN tasks :
        tasks'[k] # tasks[k]
          => /\ \E tk \in {tickets'}, at \in {attempts'}, au \in {audit'},
                   ta \in {BroadcastReturned(tasks'[k])} :
                   ENABLED <<AllSinksSucceed /\ tickets' = tk /\ attempts' = at
                             /\ audit' = au /\ BroadcastReturned(tasks'[k]) = ta>>_vars
             /\ Len(attempts') > Len(attempts)
                   => tasks'[k].pc \in {"monitor_start", "trigger_broadcast"}
             /\ tasks[k].pc = "trigger_broadcast" => tasks'[k].pc = "monitor_start"
             /\ (/\ tasks[k].pc = "polling"
                 /\ tasks'[k].result \notin {"succeeded", "escalated"}
                 /\ attempts' # attempts)
                   => /\ tasks'[k].pc = "start"
                      /\ tasks'[k].attempt = tasks[k].attempt + 1

\* C22: the failure of a notification sink (a Slack post, a websocket send,
\* the Jira close) during a step of the orchestrator changes nothing of the
\* step's outcome: tickets and attempts are as when every sink succeeds, and
\* the monitor after a trigger or the retry after a failure still happens.
C22_SinkFailureChangesNothing == [][C22_SinkStep]_vars

C22_Witness ==
    \E k \in DOMAIN tasks :
        /\ tasks[k].pc = "done"
        /\ tasks[k].result = "succeeded"
        /\ tasks[k].attempt = 2
        /\ tickets[tasks[k].tid].status = "acknowledged"
        /\ tickets[tasks[k].tid].itsm_ticket_id # NULL
        /\ \A i \in AttemptN(attempts, tasks[k].tid, 1) : attempts[i].status = "failed"
        /\ \A i \in AttemptN(attempts, tasks[k].tid, 2) : attempts[i].status = "succeeded"


\* C23: a call of trigger_auto_remediation for a ticket and an attempt number
\* for which the ticket already has an attempt row is a no-op: no second row
\* with that number, no POST to the playbook, no second monitor.
C23_RetriggerIsNoOp ==
    [][\A k \in DOMAIN tasks :
          (/\ tasks[k].pc = "start"
           /\ tasks'[k] # tasks[k]
           /\ AttemptN(attempts, tasks[k].tid, tasks[k].attempt) # {})
             => /\ attempts' = attempts
                /\ tickets' = tickets
                /\ hist' = hist
                /\ tasks'[k].pc = "done"]_vars


\* C24: every ticket created, on either ingestion path, from a finding that
\* is eligible for auto-remediation (auto-remediation enabled, auto-heal
\* possible, classification in the policy table) has a remediation cycle
\* started for it with attempt number 1.
C24_EligibleTicketGetsCycle ==
    \A tid \in DOMAIN tickets :
        (reqs[tid].status \in Created /\ Eligible(cfg, reqs[tid].rca[1]))
          => /\ tid \in DOMAIN tasks
             /\ tasks[tid].tid = tid
             /\ tasks[tid].attempt >= 1


\* with task k waiting, the handling of a new alert, the next step of every
\* alert being handled and the next step of every other cycle are enabled
OthersEnabled(k) ==
    /\ Len(reqs) < 2
          => ENABLED <<NextEventLoop /\ Len(reqs') > Len(reqs)>>_vars
    /\ \A rid \in DOMAIN reqs :
          reqs[rid].pc # "done"
            => ENABLED <<NextEventLoop /\ reqs'[rid].pc # reqs[rid].pc>>_vars
    /\ \A c \in DOMAIN tasks \ {k} :
          tasks[c].pc # "done"
            => ENABLED <<NextEventLoop /\ tasks'[c] # tasks[c]>>_vars

\* C25: while a cycle is in its backoff wait or between two polls, the
\* handling of a new alert and every step of another ticket's cycle are
\* enabled: they can be taken, and complete, before the wait is over; no
\* wait of a cycle, the wait between two POSTs of its trigger call included,
\* delays a step of another ticket's cycle or of an alert.
C25_NoWaitDelays ==
    \A k \in DOMAIN tasks : Waiting(tasks[k]) => OthersEnabled(k)

\* the part of C25 that holds: a cycle suspended in asyncio.sleep delays
\* nothing; what is delayed is delayed by a task inside time.sleep
C25_OnlyTimeSleepDelays ==
    \A k \in DOMAIN tasks : (Waiting(tasks[k]) /\ ~LoopHeld) => OthersEnabled(k)

\* one cycle is between two POSTs of its trigger call while the cycle of
\* another ticket is between two polls
C25_Witness ==
    \E k, c \in DOMAIN tasks :
        /\ k # c
        /\ tasks[k].pc = "time.sleep"
        /\ tasks[c].pc = "polling"
        /\ tasks[c].elapsed = poll_interval
        /\ tasks[k].tid # tasks[c].tid


\* the positions of the POSTs in a trace of _http_post_with_retries
Posts(tr) == {i \in DOMAIN tr : tr[i].ev \in {"POST", "POST raised"}}

\* a POST that was answered with a status below 500
FinalPost(e) == e.ev = "POST" /\ e.arg < 500

\* C26: _http_post_with_retries sends at most 3 POSTs; an answer below 500,
\* every 4xx included, is returned at once and nothing is sent after it;
\* another POST follows only a 5xx answer or a raised error, after a wait
\* proportional to the number of the failed POST; after the third failure the
\* helper ends, returning the last 5xx answer or raising the last error.
C26_PostRetries ==
    \A c \in DOMAIN tasks \cap CallIds :
        LET tr == hist[c]
            r == tasks[c].response
            last == tasks[c].tries[HttpRetries]
        IN  /\ Cardinality(Posts(tr)) \in 1..3
            /\ r.posts = Cardinality(Posts(tr))
            /\ \A i \in Posts(tr) :
                  IF FinalPost(tr[i])
                  THEN /\ i = Len(tr)
                       /\ ~r.raised
                       /\ r.status_code = tr[i].arg
                  ELSE /\ i < Len(tr)
                       /\ tr[i + 1] = Event("time.sleep", tr[i].n, HttpBackoffMs * tr[i].n)
            /\ \A i \in Posts(tr) :
                  tr[i].n > 1
                    => /\ i > 2
                       /\ tr[i - 1].ev = "time.sleep"
                       /\ tr[i - 1].arg = (tr[i].n - 1) * tr[2].arg
                       /\ tr[i - 2].n = tr[i].n - 1
                       /\ tr[i - 2].ev = "POST raised" \/ tr[i - 2].arg >= 500
            /\ (\A i \in Posts(tr) : ~FinalPost(tr[i]))
                  => /\ r.posts = 3
                     /\ r.raised = last.raised
                     /\ ~r.raised => r.status_code = last.status_code /\ r.status_code >= 500

C26_Witness ==
    \E c \in DOMAIN tasks \cap CallIds :
        /\ hist[c] = <<Event("POST", 1, 503), Event("time.sleep", 1, 1500),
                       Event("POST raised", 2, 0), Event("time.sleep", 2, 3000),
                       Event("POST", 3, 404)>>
        /\ tasks[c].response = [raised |-> FALSE, status_code |-> 404, posts |-> 3]


\* C27: every answer of the playbook in 200..299 is a trigger success: the
\* attempt row is inserted, the ticket updated and the monitor started; no
\* call of trigger_auto_remediation ends as failed on such an answer.
C27_Every2xxIsSuccess ==
    \A k \in DOMAIN tasks :
        \A c \in 200..299 :
            tasks[k].result # "Logic App error: " \o ToString(c)


\* the step in which the playbook accepts the trigger for attempt n: the row
\* for attempt n is inserted 'in_progress', the ticket gets remediation status
\* 'in_progress' and attempt count n, the start is recorded, and the monitor
\* is created last, in the same step or, with a dashboard connected, in the
\* step after the broadcast, and has not run yet
C28_TriggerStep ==
    \A k \in DOMAIN tasks :
        LET t == tasks[k]
            run == tasks'[k].run
            announced == <<"INSERT remediation_attempts", "UPDATE tickets",
                           "remediation_started">>
            persisted ==
                /\ attempts' = Append(attempts,
                                      AttemptRow(t.tid, run, t.attempt, "in_progress"))
                /\ tickets'[t.tid].remediation_status = "in_progress"
                /\ tickets'[t.tid].remediation_attempts = t.attempt
                /\ tickets'[t.tid].remediation_run_id = run
                /\ AuditCount(audit', t.tid, "auto_remediation_triggered")
                      = AuditCount(audit, t.tid, "auto_remediation_triggered") + 1
        IN  /\ (t.pc \in {"start", "backoff"}
                  /\ tasks'[k].pc \in {"trigger_broadcast", "monitor_start"})
                 => persisted
            /\ (tasks'[k].pc = "trigger_broadcast" /\ t.pc # "trigger_broadcast")
                 => /\ t.pc \in {"start", "backoff"}
                    /\ tasks'[k].effects = announced
            /\ (tasks'[k].pc = "monitor_start" /\ t.pc # "monitor_start")
                 => /\ t.pc \in {"start", "backoff", "trigger_broadcast"}
                    /\ tasks'[k].effects
                          = announced \o <<"create_task monitor_remediation_run">>
                    /\ tasks'[k].elapsed = 0
                    /\ t.pc = "trigger_broadcast"
                          => /\ t.effects = announced
                             /\ attempts' = attempts
                             /\ tickets' = tickets
                             /\ audit' = audit

\* a monitor exists for attempt n only with the row of attempt n and the
\* ticket's update in the store
C28_MonitorAfterPersist ==
    \A k \in DOMAIN tasks :
        tasks[k].pc \in {"monitor_start", "polling"}
          => /\ AttemptN(attempts, tasks[k].tid, tasks[k].attempt) # {}
             /\ tickets[tasks[k].tid].remediation_attempts = tasks[k].attempt
             /\ tickets[tasks[k].tid].remediation_run_id = tasks[k].run
             /\ AuditCount(audit, tasks[k].tid, "auto_remediation_triggered")
                   >= tasks[k].attempt

\* C28: on trigger success for attempt n the attempt row is inserted as
\* 'in_progress', then the ticket is set to remediation status 'in_progress'
\* with attempt count n, then the start is announced, then the monitor is
\* started; no monitor of attempt n runs before row and ticket are persisted.
C28_PersistBeforeMonitor == [][C28_TriggerStep /\ C28_MonitorAfterPersist']_vars

C28_Witness ==
    \E k \in DOMAIN tasks :
        /\ tasks[k].pc = "polling"
        /\ tasks[k].attempt = 2
        /\ tasks[k].effects = TriggerEffects
        /\ \E i \in AttemptN(attempts, tasks[k].tid, 2) : attempts[i].status = "in_progress"
        /\ tickets[tasks[k].tid].remediation_status = "in_progress"
        /\ tickets[tasks[k].tid].remediation_attempts = 2


\* a poll answered 401: the loop goes on to its next interval and nothing in
\* the store changes
C29_AuthStep ==
    \A k \in DOMAIN tasks :
        (tasks[k].pc = "polling" /\ tasks[k].elapsed < max_poll_duration
           /\ tasks'[k] # tasks[k])
          => /\ tasks'[k] = [tasks[k] EXCEPT !.elapsed = @ + poll_interval]
             /\ attempts' = attempts
             /\ tickets' = tickets
             /\ audit' = audit

\* under 401s alone the attempt stays 'in_progress' until the maximum total
\* wait is over: it is never marked failed, never escalated, and marked
\* 'timeout' only after max_poll_duration
C29_AuthState ==
    \A k \in DOMAIN tasks :
        /\ tasks[k].result # "escalated"
        /\ \A i \in AttemptsOf(attempts, tasks[k].tid) :
              /\ attempts[i].status \in {"in_progress", "timeout"}
              /\ attempts[i].status = "timeout"
                    => /\ tasks[k].elapsed >= max_poll_duration
                       /\ tasks[k].elapsed = PollLimit * poll_interval
        /\ tickets[tasks[k].tid].remediation_status # "max_retries_exceeded"

\* C29: a 401 on a status poll never ends the monitor loop: the credential is
\* refreshed and the loop polls again at the next interval; any number of
\* consecutive 401s, with the refresh failing or not, marks the attempt
\* neither failed nor 'timeout' and escalates nothing before the maximum
\* total wait has elapsed.
C29_UnauthorizedKeepsPolling == [][C29_AuthStep /\ C29_AuthState']_vars

C29_Witness ==
    \E k \in DOMAIN tasks :
        /\ tasks[k].pc = "polling"
        /\ tasks[k].elapsed = max_poll_duration - poll_interval
        /\ \A i \in AttemptsOf(attempts, tasks[k].tid) : attempts[i].status = "in_progress"
        /\ AttemptsOf(attempts, tasks[k].tid) # {}


\* runs of the backoff computation by itself
BackoffCalls == {c \in DOMAIN tasks : "backoff_seconds" \in DOMAIN tasks[c]}

\* in a call of trigger_auto_remediation the POST for attempt 1 is sent
\* without a wait, and the POST for attempt n >= 2 comes right after one wait
\* of backoff_seconds[n-2] seconds (counted from 0) of the classification's
\* policy, n - 2 lying inside the sequence; there is no other wait
C30_TriggerWaits ==
    \A k \in DOMAIN tasks \ BackoffCalls :
        LET h == hist[k]
            backoff == REMEDIABLE_ERRORS[tasks[k].error_type].backoff_seconds
        IN  \A i \in DOMAIN h :
              /\ h[i].ev = "sleep"
                    => /\ h[i].n >= 2
                       /\ h[i].n - 2 < Len(backoff)
                       /\ h[i].arg = backoff[h[i].n - 1]
                       /\ i < Len(h) => h[i + 1] = Event("post", h[i].n, 0)
              /\ h[i].ev = "post"
                    => IF h[i].n = 1
                       THEN i = 1
                       ELSE /\ i > 1
                            /\ h[i - 1] = Event("sleep", h[i].n, backoff[h[i].n - 1])

\* the computation by itself, where it waits: never for attempt 1, and
\* backoff_seconds[n-2] for attempt n >= 2 with n - 2 inside the sequence
C30_WaitInsideSequence ==
    \A c \in BackoffCalls :
        LET b == tasks[c].backoff_seconds
            n == tasks[c].attempt
        IN  /\ n = 1 => hist[c] = <<>>
            /\ (n >= 2 /\ n - 2 < Len(b)) => hist[c] = <<Event("sleep", n, b[n - 1])>>

C31_WellFormed ==
    \A e \in DOMAIN REMEDIABLE_ERRORS :
        LET p == REMEDIABLE_ERRORS[e]
        IN  /\ p.max_retries >= 1
            /\ Len(p.backoff_seconds) >= p.max_retries - 1
            /\ \A n \in 2..p.max_retries :
                  /\ n - 2 >= 0
                  /\ n - 2 < Len(p.backoff_seconds)
                  /\ BackoffDelay(e, n) = <<p.backoff_seconds[n - 1]>>
            /\ p.playbook_url \in PlaybookEnvs

C31_PolicyTableWellFormed ==
    /\ []C31_WellFormed
    /\ [][cfg'.playbooks = cfg.playbooks]_vars

\* a call for the last attempt the policy allows (n = max_retries >= 2) waits
\* in its backoff, the delay taken from index n - 2
C31_Witness ==
    \E k \in DOMAIN tasks :
        /\ tasks[k].pc = "backoff"
        /\ tasks[k].error_type \in DOMAIN REMEDIABLE_ERRORS
        /\ tasks[k].attempt = REMEDIABLE_ERRORS[tasks[k].error_type].max_retries
        /\ tasks[k].attempt >= 2


\* C32: a call of trigger_auto_remediation with an attempt number above the
\* policy's max_retries ends without a POST to the playbook and escalates the
\* ticket: remediation_status 'max_retries_exceeded' and status 'open'.
C32_ExhaustedCallEscalates ==
    [][\A k \in DOMAIN tasks :
          (/\ tasks[k].pc = "start"
           /\ tasks[k].error_type \in DOMAIN REMEDIABLE_ERRORS
           /\ tasks[k].attempt > REMEDIABLE_ERRORS[tasks[k].error_type].max_retries
           /\ tasks'[k].pc # "start")
             => /\ tasks'[k].pc = "done"
                /\ hist'[k] = hist[k]
                /\ tickets'[tasks[k].tid].remediation_status = "max_retries_exceeded"
                /\ tickets'[tasks[k].tid].status = "open"]_vars


\* the POSTs to the playbook a cycle has made
PostsOfCycle(k) == {i \in DOMAIN hist[k] : hist[k][i].ev = "post"}

\* C33: in every reachable state every remediation_attempts row of a ticket
\* has an attempt number in 1..max_retries of the policy of the ticket's
\* classification, and the ticket has at most max_retries rows; its cycle
\* has called the playbook at most max_retries times.
C33_AttemptsWithinPolicy ==
    /\ \A i \in DOMAIN attempts :
          LET row == tickets[attempts[i].ticket_id]
          IN  /\ row.error_type \in DOMAIN REMEDIABLE_ERRORS
              /\ attempts[i].attempt_number >= 1
              /\ attempts[i].attempt_number <= REMEDIABLE_ERRORS[row.error_type].max_retries
    /\ \A tid \in DOMAIN tickets :
          AttemptsOf(attempts, tid) # {}
             => Cardinality(AttemptsOf(attempts, tid))
                   <= REMEDIABLE_ERRORS[tickets[tid].error_type].max_retries
    /\ \A k \in DOMAIN tasks :
          tasks[k].error_type \in DOMAIN REMEDIABLE_ERRORS
             => Cardinality(PostsOfCycle(k))
                   <= REMEDIABLE_ERRORS[tasks[k].error_type].max_retries

\* a ticket whose policy allows two attempts has two rows, the second failed
\* as well, and its cycle has ended in the escalation
C33_Witness ==
    \E k \in DOMAIN tasks :
        /\ tasks[k].result = "escalated"
        /\ REMEDIABLE_ERRORS[tasks[k].error_type].max_retries = 2
        /\ Cardinality(AttemptsOf(attempts, tasks[k].tid)) = 2
        /\ Cardinality(PostsOfCycle(k)) = 2


\* the statuses of an attempt whose run is over
TerminalAttemptStatuses == {"succeeded", "failed", "timeout"}

\* C34: no step changes the status of an attempt row that is 'succeeded',
\* 'failed' or 'timeout': marking attempt n changes the row of attempt n only,
\* also when the playbook returned no run handle ('N/A') for several attempts
\* of the ticket.
C34_TerminalStatusKept ==
    [][\A i \in DOMAIN attempts :
          attempts[i].status \in TerminalAttemptStatuses
             => /\ i \in DOMAIN attempts'
                /\ attempts'[i].status = attempts[i].status]_vars


\* the POSTs of a cycle that triggered attempt n
TriggersOf(k, n) == {i \in PostsOfCycle(k) : hist[k][i].n = n}

\* C35: a ticket has at most one remediation cycle, started by the alert that
\* created the ticket and by no duplicate of it; the cycle triggers each
\* attempt number at most once, attempt n + 1 only after attempt n was
\* triggered and its failure handled; and at most one monitor of the ticket
\* is polling at any time.
C35_OneCyclePerIncident ==
    /\ \A k \in DOMAIN tasks :
          LET tid == tasks[k].tid
          IN  /\ k \in DOMAIN reqs
              /\ reqs[k].status \in Created
              /\ reqs[k].ticket_id = tid
              /\ \A j \in DOMAIN tasks : tasks[j].tid = tid => j = k
              /\ \A n \in 1..(Len(hist[k]) + 1) : Cardinality(TriggersOf(k, n)) <= 1
              /\ \A i \in PostsOfCycle(k) :
                    hist[k][i].n >= 2
                       => /\ \E j \in TriggersOf(k, hist[k][i].n - 1) : j < i
                          /\ AuditCount(audit, tid, "auto_remediation_attempt_failed")
                                >= hist[k][i].n - 1
    /\ \A tid \in DOMAIN tickets :
          Cardinality({k \in DOMAIN tasks :
                          tasks[k].tid = tid /\ tasks[k].pc \in {"monitor_start", "polling"}})
             <= 1

\* an alert and a duplicate of it were both handled, and the cycle of the one
\* ticket has triggered attempts 1 and 2
C35_Witness ==
    \E a, b \in DOMAIN reqs :
        /\ a # b
        /\ reqs[a].runid = reqs[b].runid
        /\ reqs[a].status \in Created
        /\ reqs[b].status \in {"duplicate_ignored", "duplicate_race_condition"}
        /\ a \in DOMAIN tasks
        /\ TriggersOf(a, 1) # {}
        /\ TriggersOf(a, 2) # {}


\* the highest attempt number among a ticket's rows, 0 when it has none
RECURSIVE MaxOf(_)
MaxOf(S) ==
    IF S = {} THEN 0
    ELSE LET x == CHOOSE y \in S : TRUE
             m == MaxOf(S \ {x})
         IN  IF x > m THEN x ELSE m

HighestAttempt(att, tid) == MaxOf({att[i].attempt_number : i \in AttemptsOf(att, tid)})

\* C36: in every reachable state a ticket's remediation_attempts equals the
\* highest attempt number among its remediation_attempts rows, 0 when it has
\* none, and no step decreases it.
C36_CountIsHighestAttempt ==
    /\ [](\A tid \in DOMAIN tickets :
             tickets[tid].remediation_attempts = HighestAttempt(attempts, tid))
    /\ [][\A tid \in DOMAIN tickets :
             tickets'[tid].remediation_attempts >= tickets[tid].remediation_attempts]_vars

\* a ticket with rows 1 and 2 stores the count 2, and a Jira status change
\* has been applied to it since
C36_Witness ==
    \E tid \in DOMAIN tickets :
        /\ Cardinality(AttemptsOf(attempts, tid)) = 2
        /\ tickets[tid].remediation_attempts = 2
        /\ HighestAttempt(attempts, tid) = 2
        /\ webhooks = 1


\* a ticket for which something of a remediation cycle exists
RemediationStarted(tid) ==
    \/ AttemptsOf(attempts, tid) # {}
    \/ tickets[tid].remediation_status # NULL
    \/ tickets[tid].remediation_attempts # 0
    \/ \E k \in DOMAIN tasks : tasks[k].tid = tid
    \/ AuditCount(audit, tid, "auto_remediation_triggered") > 0

\* C37: a ticket has a remediation cycle, attempt or remediation status only
\* if auto-remediation is enabled and the finding its alert was analysed to
\* has auto_heal_possible true and a classification in the policy table; a
\* ticket built from the static fallback finding ('UnknownError', not
\* auto-healable) has no attempt and its remediation status stays unset.
C37_OnlyEligibleRemediated ==
    \A tid \in DOMAIN tickets :
        LET rca == reqs[tid].rca[1]
        IN  /\ RemediationStarted(tid)
               => /\ cfg.AUTO_REMEDIATION_ENABLED
                  /\ rca.auto_heal_possible
                  /\ rca.error_type \in DOMAIN REMEDIABLE_ERRORS
                  /\ tickets[tid].error_type = rca.error_type
            /\ rca = fallback_rca
               => /\ tickets[tid].error_type = "UnknownError"
                  /\ ~RemediationStarted(tid)

\* with auto-remediation enabled, one ticket was built from the fallback
\* finding and has no remediation, another has an attempt row
C37_Witness ==
    /\ cfg.AUTO_REMEDIATION_ENABLED
    /\ \E a, b \in DOMAIN tickets :
          /\ reqs[a].rca = <<fallback_rca>>
          /\ reqs[a].path = "azure"
          /\ tickets[a].remediation_status = NULL
          /\ AttemptsOf(attempts, b) # {}


\* how often the success, failure and timeout handlers have run for a ticket
HandlerRuns(a, tid) ==
    [success |-> AuditCount(a, tid, "auto_remediation_success"),
     failure |-> AuditCount(a, tid, "auto_remediation_attempt_failed"),
     timeout |-> AuditCount(a, tid, "auto_remediation_monitoring_timeout")]

HandlerTotal(a, tid) ==
    HandlerRuns(a, tid).success + HandlerRuns(a, tid).failure + HandlerRuns(a, tid).timeout

\* a monitor in its loop has made elapsed / poll_interval polls, at most 120,
\* and no handler has run for its attempt; a cycle that ended in a handler has
\* run one handler per attempt
C38_State ==
    \A k \in DOMAIN tasks :
        LET t == tasks[k]
        IN  /\ t.pc = "polling"
               => /\ t.elapsed \in 0..max_poll_duration
                  /\ t.elapsed % poll_interval = 0
                  /\ t.elapsed \div poll_interval <= 120
                  /\ HandlerTotal(audit, t.tid) = t.attempt - 1
            /\ t.result \in {"succeeded", "escalated", "timeout"}
               => /\ t.pc = "done"
                  /\ HandlerTotal(audit, t.tid) = t.attempt
                  /\ HandlerRuns(audit, t.tid).failure
                        = IF t.result = "escalated" THEN t.attempt ELSE t.attempt - 1

\* what one iteration of the loop, and the end of the loop, do for each answer
\* of the status endpoint
C38_Step ==
    /\ \A k \in ReqIds, outcome \in PollOutcomes, f \in FailureMessages :
          monitor_poll(k, outcome, PollLimit, f)
             => LET t == tasks[k]
                    before == HandlerRuns(audit, t.tid)
                    after == HandlerRuns(audit', t.tid)
                IN  /\ t.elapsed < max_poll_duration
                    /\ CASE outcome = "Succeeded" ->
                               /\ after = [before EXCEPT !.success = @ + 1]
                               /\ tasks'[k].pc = "done"
                          [] outcome \in {"Failed", "Cancelled"} ->
                               /\ after = [before EXCEPT !.failure = @ + 1]
                               /\ tasks'[k].pc # "polling"
                          [] OTHER ->
                               /\ audit' = audit
                               /\ attempts' = attempts
                               /\ tickets' = tickets
                               /\ tasks'[k] = [t EXCEPT !.elapsed = @ + poll_interval]
    /\ \A k \in ReqIds :
          monitor_timeout(k)
             => /\ tasks[k].elapsed = 120 * poll_interval
                /\ HandlerRuns(audit', tasks[k].tid)
                      = [HandlerRuns(audit, tasks[k].tid) EXCEPT !.timeout = @ + 1]
                /\ tasks'[k].pc = "done"
    /\ \A tid \in DOMAIN tickets :
          HandlerRuns(audit', tid) # HandlerRuns(audit, tid)
             => /\ HandlerTotal(audit', tid) = HandlerTotal(audit, tid) + 1
                /\ \E k \in DOMAIN tasks : tasks[k].tid = tid /\ tasks[k].pc = "polling"

\* C38: every monitor that starts polling leaves its loop: it makes at most
\* 120 polls and runs exactly one of the success, failure and timeout
\* handlers, once - success or failure on the first poll answered Succeeded
\* or Failed/Cancelled, timeout only after the 120th poll; a poll answered
\* with another status, an error status or an exception runs no handler.
C38_MonitorTerminates ==
    /\ []C38_State
    /\ [][C38_Step]_vars
    /\ []<>(\A k \in DOMAIN tasks : tasks[k].pc # "polling")

\* what a trigger step that did not succeed leaves as it was: the attempt
\* rows, the ticket, the audit trail, the events sent; and the cycle is over
C39_Frame(k) ==
    /\ attempts' = attempts
    /\ tickets' = tickets
    /\ audit' = audit
    /\ tasks'[k].effects = tasks[k].effects
    /\ tasks'[k].pc = "done"
    /\ tasks'[k].result # "success"
    /\ tasks'[k].run = tasks[k].run

C39_Step ==
    \A k \in ReqIds, r \in PostResults, h \in BOOLEAN :
        LET entered == trigger_auto_remediation(k, r, h, NoSinkFailure)
            resumed == trigger_after_backoff(k, r, h, NoSinkFailure)
        IN  /\ (/\ entered
                /\ tasks[k].error_type \in DOMAIN REMEDIABLE_ERRORS
                /\ REMEDIABLE_ERRORS[tasks[k].error_type].playbook_url \notin cfg.playbooks)
                  => C39_Frame(k) /\ hist' = hist
            /\ (/\ (entered /\ tasks'[k].pc # "backoff") \/ resumed
                /\ r.raised \/ r.status_code # 200)
                  => C39_Frame(k)

\* C39: a trigger step that does not succeed - the playbook URL is not
\* configured, the final response is not the success response, or the call
\* raised - inserts no attempt row, leaves the ticket's status, remediation
\* status and attempt count as they were, sends no 'remediation_started'
\* event and starts no monitor.
C39_FailedTriggerChangesNothing == [][C39_Step]_vars

\* the trigger of a second attempt ended on a 5xx answer: the ticket still
\* shows attempt 1, marked failed, as its one attempt
C39_Witness ==
    \E k \in DOMAIN tasks :
        /\ tasks[k].pc = "done"
        /\ tasks[k].attempt = 2
        /\ tasks[k].result = "Logic App error: No response"
        /\ tickets[tasks[k].tid].remediation_attempts = 1
        /\ tickets[tasks[k].tid].remediation_status = "in_progress"
        /\ Cardinality(AttemptsOf(attempts, tasks[k].tid)) = 1

====
